---- MODULE Spec2Model ----
(***************************************************************************)
(* SchemaGenerator of DevPlan AI Generator                                 *)
(* (src/app/services/schema_generator.py): complexity scoring, technology  *)
(* selection, timeline and cost estimation, schema assembly.               *)
(*                                                                         *)
(* Representation of Python values:                                        *)
(*  - a str that the code lower-cases, scans for substrings or uses as a   *)
(*    catalog key (requirements, the three preferences, catalog keys and   *)
(*    the alternatives lists) is a sequence of one-character strings, so   *)
(*    that "React" and "react" differ in exactly their first character.    *)
(*    The characters e-acute and E-acute are written "e'" and "E'".        *)
(*    A value of another type in the place of such a str (a JSON number in *)
(*    the request) is a sequence whose first element names its type.       *)
(*    The number 42 in the place of any other str is the string "int 42",  *)
(*    which no str of the inputs equals.                                   *)
(*  - every other str (project_type, scale, names, fixed texts) is only    *)
(*    compared for equality by the code and is a TLA+ string; accents of   *)
(*    the fixed French texts are dropped.                                  *)
(*  - a dict whose iteration order the code observes (a catalog category,  *)
(*    third_party_services, tech_stack_summary) is a sequence of           *)
(*    <<key, value>> pairs in insertion order; project_data and the        *)
(*    template table, which are only read by key, are functions whose      *)
(*    DOMAIN is the set of keys present.                                   *)
(*  - a float that only ever holds a decimal with one fractional digit is  *)
(*    kept in tenths (0.7 is 7, 2.5 is 25); the float results of the code  *)
(*    for the values reached here are integers and equal the results of    *)
(*    the integer arithmetic below.                                        *)
(***************************************************************************)
EXTENDS Integers, Sequences, FiniteSets, TLC

VARIABLES
  project_templates,  \* self.project_templates
  tech_database,      \* self.tech_database
  data,               \* the mapping the caller passes as project_data
  last,               \* the call that returned last: operation, arguments, result
  kept                \* an earlier call whose arguments and result a caller still holds

vars == <<project_templates, tech_database, data, last, kept>>

-----------------------------------------------------------------------------
(* Enum members.  A member is not its value: EnumValue gives the value.    *)

SIMPLE == "ProjectComplexity.SIMPLE"
MODERATE == "ProjectComplexity.MODERATE"
COMPLEX == "ProjectComplexity.COMPLEX"
ENTERPRISE == "ProjectComplexity.ENTERPRISE"

ProjectComplexity == <<SIMPLE, MODERATE, COMPLEX, ENTERPRISE>>

FRONTEND == "TechStackCategory.FRONTEND"
BACKEND == "TechStackCategory.BACKEND"
DATABASE == "TechStackCategory.DATABASE"

\* Python's None, as returned by dict.get without a default.
None == "None"

-----------------------------------------------------------------------------
(* Python built-ins used by the generator.                                 *)

\* dict.get(key, default) on a dict read by key only.
Get(d, key, default) == IF key \in DOMAIN d THEN d[key] ELSE default

\* key in d, d[key] and list(d.keys()) on an insertion-ordered dict.
HasKey(d, key) == \E i \in DOMAIN d : d[i][1] = key

Lookup(d, key) == d[CHOOSE i \in DOMAIN d : d[i][1] = key][2]

Keys(d) == [i \in DOMAIN d |-> d[i][1]]

Values(d) == [i \in DOMAIN d |-> d[i][2]]

\* sum(...) of a list of numbers.
RECURSIVE Sum(_)
Sum(s) == IF s = << >> THEN 0 ELSE s[1] + Sum(Tail(s))

Max(a, b) == IF a >= b THEN a ELSE b

UpperCase == <<"A","B","C","D","E","F","G","H","I","J","K","L","M",
               "N","O","P","Q","R","S","T","U","V","W","X","Y","Z","E'">>

LowerCase == <<"a","b","c","d","e","f","g","h","i","j","k","l","m",
               "n","o","p","q","r","s","t","u","v","w","x","y","z","e'">>

\* str.lower(): every cased character is replaced by its lower-case form.
LowerChar(c) ==
  IF c \in {UpperCase[i] : i \in DOMAIN UpperCase}
    THEN LowerCase[CHOOSE i \in DOMAIN UpperCase : UpperCase[i] = c]
    ELSE c

Lower(s) == [i \in DOMAIN s |-> LowerChar(s[i])]

\* term in s, for two str: term occurs in s at some offset.
Contains(s, term) ==
  \E i \in 0..(Len(s) - Len(term)) : \A k \in 1..Len(term) : s[i + k] = term[k]

\* any(term in s for term in terms)
AnyTermIn(terms, s) == \E i \in DOMAIN terms : Contains(s, terms[i])

\* isinstance(v, str)
IsStr(v) == v = << >> \/ v[1] # "int"

\* isinstance(v, str) for a value kept as a TLA+ string.
IsStrAtom(v) == v # "int 42"

-----------------------------------------------------------------------------
(* The static tables built by the constructor.                             *)

LoadTemplates ==
  [ecommerce |->
     [name |-> "Plateforme E-commerce",
      base_components |-> <<"web_frontend", "api_backend", "database", "payment_gateway", "cdn">>,
      required_features |-> <<"user_auth", "product_catalog", "cart", "checkout", "admin_panel">>,
      complexity_multiplier |-> 13,
      estimated_weeks |-> 16],
   saas |->
     [name |-> "Application SaaS",
      base_components |-> <<"web_frontend", "api_backend", "database", "auth_service", "billing">>,
      required_features |-> <<"multi_tenant", "subscription", "analytics", "api_access">>,
      complexity_multiplier |-> 15,
      estimated_weeks |-> 20],
   mobile |->
     [name |-> "Application Mobile",
      base_components |-> <<"mobile_app", "api_backend", "database", "push_notifications">>,
      required_features |-> <<"offline_sync", "real_time", "user_auth">>,
      complexity_multiplier |-> 12,
      estimated_weeks |-> 14],
   api |->
     [name |-> "API REST",
      base_components |-> <<"api_backend", "database", "documentation", "monitoring">>,
      required_features |-> <<"versioning", "rate_limiting", "auth", "caching">>,
      complexity_multiplier |-> 8,
      estimated_weeks |-> 8],
   dashboard |->
     [name |-> "Dashboard Analytics",
      base_components |-> <<"web_frontend", "api_backend", "database", "analytics_engine">>,
      required_features |-> <<"real_time_data", "charts", "export", "user_management">>,
      complexity_multiplier |-> 11,
      estimated_weeks |-> 12]]

TechEntry(name, version, learning_curve, popularity_score, maintenance_cost, best_for) ==
  [name |-> name, version |-> version, learning_curve |-> learning_curve,
   popularity_score |-> popularity_score, maintenance_cost |-> maintenance_cost,
   best_for |-> best_for]

LoadTechDatabase ==
  (FRONTEND :> <<
     <<<<"r","e","a","c","t">>, TechEntry(<<"R","e","a","c","t">>, "18.x", "moderate", 9, "medium",
                            <<"spa", "interactive_ui", "large_teams">>)>>,
     <<<<"v","u","e">>, TechEntry(<<"V","u","e",".","j","s">>, "3.x", "easy", 8, "low",
                          <<"rapid_prototyping", "small_teams", "progressive_enhancement">>)>>,
     <<<<"n","e","x","t","j","s">>, TechEntry(<<"N","e","x","t",".","j","s">>, "14.x", "moderate", 9, "medium",
                             <<"seo_important", "ssr", "full_stack">>)>> >>)
  @@
  (BACKEND :> <<
     <<<<"n","o","d","e","j","s">>, TechEntry(<<"N","o","d","e",".","j","s">>, "20.x LTS", "easy", 9, "medium",
                             <<"api_development", "real_time", "microservices">>)>>,
     <<<<"p","y","t","h","o","n">>, TechEntry(<<"P","y","t","h","o","n">>, "3.12", "easy", 10, "low",
                             <<"data_processing", "ai_ml", "rapid_development">>)>>,
     <<<<"j","a","v","a">>, TechEntry(<<"J","a","v","a">>, "21 LTS", "moderate", 8, "high",
                           <<"enterprise", "high_performance", "large_teams">>)>> >>)
  @@
  (DATABASE :> <<
     <<<<"p","o","s","t","g","r","e","s","q","l">>, TechEntry(<<"P","o","s","t","g","r","e","S","Q","L">>, "16.x", "moderate", 9, "medium",
                                 <<"relational_data", "complex_queries", "acid_compliance">>)>>,
     <<<<"m","o","n","g","o","d","b">>, TechEntry(<<"M","o","n","g","o","D","B">>, "7.x", "easy", 8, "medium",
                              <<"document_storage", "rapid_prototyping", "flexible_schema">>)>>,
     <<<<"r","e","d","i","s">>, TechEntry(<<"R","e","d","i","s">>, "7.x", "easy", 9, "low",
                            <<"caching", "session_storage", "real_time">>)>> >>)

-----------------------------------------------------------------------------
(* analyze_project_complexity                                              *)

ScaleScore(project_data) ==
  IF Get(project_data, "scale", None) = "large" THEN 3
  ELSE IF Get(project_data, "scale", None) = "medium" THEN 2
  ELSE 1

ProjectTypeScore(project_data) ==
  LET project_type == Get(project_data, "project_type", "")
  IN  IF project_type \in {"saas", "enterprise"} THEN 2
      ELSE IF project_type \in {"ecommerce", "dashboard"} THEN 1
      ELSE 0

SecurityTerms == <<<<"p","a","i","e","m","e","n","t">>, <<"s","e'","c","u","r","i","t","e'">>, <<"p","e","r","f","o","r","m","a","n","c","e">>, <<"s","c","a","l","a","b","i","l","i","t","e'">>>>

RealTimeTerms == <<<<"t","e","m","p","s"," ","r","e'","e","l">>, <<"m","i","c","r","o","s","e","r","v","i","c","e","s">>, <<"m","u","l","t","i","-","t","e","n","a","n","t">>>>

\* The keyword scan without lower-casing the requirements.
RequirementsScoreCaseSensitive(project_data) ==
  LET requirements == Get(project_data, "requirements", << >>)
  IN  (IF AnyTermIn(SecurityTerms, requirements) THEN 1 ELSE 0)
      + (IF AnyTermIn(RealTimeTerms, requirements) THEN 2 ELSE 0)

RequirementsScore(project_data) ==
  LET requirements == Lower(Get(project_data, "requirements", << >>))
  IN  (IF AnyTermIn(SecurityTerms, requirements) THEN 1 ELSE 0)
      + (IF AnyTermIn(RealTimeTerms, requirements) THEN 2 ELSE 0)

complexity_score(project_data) ==
  ScaleScore(project_data) + ProjectTypeScore(project_data) + RequirementsScore(project_data)

\* The thresholds with the returns of the two middle branches exchanged.
analyze_project_complexity_swapped(project_data) ==
  LET score == complexity_score(project_data)
  IN  IF score <= 2 THEN SIMPLE
      ELSE IF score <= 4 THEN COMPLEX
      ELSE IF score <= 6 THEN MODERATE
      ELSE ENTERPRISE

\* The analysis with a one-entry cache on the instance, keyed by project_type
\* only: a call that follows an analysis of the same project_type returns the
\* tier of that analysis.
analyze_project_complexity_cached(project_data) ==
  LET score == complexity_score(project_data)
  IN  IF /\ last.op = "analyze_project_complexity"
         /\ last.raised = None
         /\ Get(last.project_data, "project_type", "") = Get(project_data, "project_type", "")
        THEN last.result
      ELSE IF score <= 2 THEN SIMPLE
      ELSE IF score <= 4 THEN MODERATE
      ELSE IF score <= 6 THEN COMPLEX
      ELSE ENTERPRISE

\* project_data.get('requirements', '').lower() raises AttributeError when
\* the value under 'requirements' has no method lower.
AnalysisRaises(project_data) == ~IsStr(Get(project_data, "requirements", << >>))

analyze_project_complexity(project_data) ==
  LET score == complexity_score(project_data)
  IN  IF score <= 2 THEN SIMPLE
      ELSE IF score <= 4 THEN MODERATE
      ELSE IF score <= 6 THEN COMPLEX
      ELSE ENTERPRISE

-----------------------------------------------------------------------------
(* generate_tech_recommendations                                           *)

TechnologyRecommendation(tech, category, reason, alternatives) ==
  [name |-> tech.name,
   category |-> category,
   version |-> tech.version,
   reason |-> reason,
   alternatives |-> alternatives,
   learning_curve |-> tech.learning_curve,
   popularity_score |-> tech.popularity_score,
   maintenance_cost |-> tech.maintenance_cost]

\* The condition "pref and pref in self.tech_database[category]": the key is
\* present in project_data, its value is a non-empty str, and that str is,
\* character for character, a key of the category.
PreferenceSelects(project_data, pref_key, category) ==
  /\ pref_key \in DOMAIN project_data
  /\ project_data[pref_key] # << >>
  /\ HasKey(tech_database[category], project_data[pref_key])

\* The branch taken when the preference selects: reason is the f-string
\* "Preference utilisateur - " followed by the joined best_for tags.
PreferredRecommendation(project_data, pref_key, category) ==
  LET tech == Lookup(tech_database[category], project_data[pref_key])
  IN  TechnologyRecommendation(tech, category,
        <<"Preference utilisateur - ">> \o tech.best_for,
        Keys(tech_database[category]))

\* The automatic frontend choice with its two branches exchanged.
AutomaticFrontendSwapped(complexity) ==
  IF complexity \in {SIMPLE, MODERATE}
    THEN TechnologyRecommendation(Lookup(tech_database[FRONTEND], <<"r","e","a","c","t">>), FRONTEND,
           <<"Ecosysteme riche et support pour projets complexes">>,
           <<<<"R","e","a","c","t">>, <<"V","u","e",".","j","s">>, <<"A","n","g","u","l","a","r">>>>)
    ELSE TechnologyRecommendation(Lookup(tech_database[FRONTEND], <<"v","u","e">>), FRONTEND,
           <<"Facilite d'apprentissage et developpement rapide">>,
           <<<<"R","e","a","c","t">>, <<"V","u","e",".","j","s">>, <<"A","n","g","u","l","a","r">>>>)

AutomaticFrontend(complexity) ==
  IF complexity \in {SIMPLE, MODERATE}
    THEN TechnologyRecommendation(Lookup(tech_database[FRONTEND], <<"v","u","e">>), FRONTEND,
           <<"Facilite d'apprentissage et developpement rapide">>,
           <<<<"R","e","a","c","t">>, <<"V","u","e",".","j","s">>, <<"A","n","g","u","l","a","r">>>>)
    ELSE TechnologyRecommendation(Lookup(tech_database[FRONTEND], <<"r","e","a","c","t">>), FRONTEND,
           <<"Ecosysteme riche et support pour projets complexes">>,
           <<<<"R","e","a","c","t">>, <<"V","u","e",".","j","s">>, <<"A","n","g","u","l","a","r">>>>)

AutomaticBackend(complexity) ==
  IF complexity = ENTERPRISE
    THEN TechnologyRecommendation(Lookup(tech_database[BACKEND], <<"j","a","v","a">>), BACKEND,
           <<"Performance et robustesse pour applications d'entreprise">>,
           <<<<"N","o","d","e",".","j","s">>, <<"P","y","t","h","o","n">>, <<"J","a","v","a">>, <<"C","#">>>>)
    ELSE TechnologyRecommendation(Lookup(tech_database[BACKEND], <<"n","o","d","e","j","s">>), BACKEND,
           <<"Developpement rapide et ecosysteme JavaScript unifie">>,
           <<<<"N","o","d","e",".","j","s">>, <<"P","y","t","h","o","n">>, <<"J","a","v","a">>, <<"C","#">>>>)

AutomaticDatabase(complexity) ==
  TechnologyRecommendation(Lookup(tech_database[DATABASE], <<"p","o","s","t","g","r","e","s","q","l">>), DATABASE,
    <<"Base de donnees relationnelle robuste et performante">>,
    <<<<"P","o","s","t","g","r","e","S","Q","L">>, <<"M","y","S","Q","L">>, <<"M","o","n","g","o","D","B">>>>)

\* The frontend choice that keeps an unrecognised preference as a custom
\* technology instead of falling back to the automatic choice.
FrontendRecommendationCustom(project_data, complexity) ==
  IF PreferenceSelects(project_data, "frontend_preference", FRONTEND)
    THEN PreferredRecommendation(project_data, "frontend_preference", FRONTEND)
  ELSE IF /\ "frontend_preference" \in DOMAIN project_data
          /\ project_data["frontend_preference"] # << >>
    THEN [AutomaticFrontend(complexity) EXCEPT
            !.name = project_data["frontend_preference"],
            !.reason = <<"Preference utilisateur - ">>]
  ELSE AutomaticFrontend(complexity)

FrontendRecommendation(project_data, complexity) ==
  IF PreferenceSelects(project_data, "frontend_preference", FRONTEND)
    THEN PreferredRecommendation(project_data, "frontend_preference", FRONTEND)
    ELSE AutomaticFrontend(complexity)

BackendRecommendation(project_data, complexity) ==
  IF PreferenceSelects(project_data, "backend_preference", BACKEND)
    THEN PreferredRecommendation(project_data, "backend_preference", BACKEND)
    ELSE AutomaticBackend(complexity)

DatabaseRecommendation(project_data, complexity) ==
  IF PreferenceSelects(project_data, "database_preference", DATABASE)
    THEN PreferredRecommendation(project_data, "database_preference", DATABASE)
    ELSE AutomaticDatabase(complexity)

\* The list built with "if pref in catalog ... elif not pref ..." for the
\* frontend: an unrecognised frontend preference appends nothing.
generate_tech_recommendations_no_fallback(project_data, complexity) ==
  (IF /\ "frontend_preference" \in DOMAIN project_data
      /\ project_data["frontend_preference"] # << >>
      /\ ~HasKey(tech_database[FRONTEND], project_data["frontend_preference"])
     THEN << >>
     ELSE <<FrontendRecommendation(project_data, complexity)>>)
  \o <<BackendRecommendation(project_data, complexity),
       DatabaseRecommendation(project_data, complexity)>>

generate_tech_recommendations(project_data, complexity) ==
  <<FrontendRecommendation(project_data, complexity),
    BackendRecommendation(project_data, complexity),
    DatabaseRecommendation(project_data, complexity)>>

-----------------------------------------------------------------------------
(* generate_architecture_components                                        *)

ArchitectureComponent(name, type, description, technologies, connections, scalability, estimated_complexity) ==
  [name |-> name, type |-> type, description |-> description,
   technologies |-> technologies, connections |-> connections,
   scalability |-> scalability, estimated_complexity |-> estimated_complexity]

\* The lookup with the dashboard template as the default.
TemplateForDashboard(project_type) == Get(project_templates, project_type, project_templates["dashboard"])

\* self.project_templates.get(project_type, self.project_templates['api'])
TemplateFor(project_type) == Get(project_templates, project_type, project_templates["api"])

\* "x in template['base_components']"
InList(x, list) == \E i \in DOMAIN list : list[i] = x

\* next((t for t in tech_recommendations if t.category == category), None),
\* then "t.name if t else fallback".
TechNameOf(tech_recommendations, category, fallback) ==
  IF \E i \in DOMAIN tech_recommendations : tech_recommendations[i].category = category
    THEN LET first == CHOOSE i \in DOMAIN tech_recommendations :
                        /\ tech_recommendations[i].category = category
                        /\ \A j \in DOMAIN tech_recommendations :
                             tech_recommendations[j].category = category => i <= j
         IN  tech_recommendations[first].name
    ELSE fallback

\* The cache component added for every scale but small.
CacheComponentsUnlessSmall(project_data) ==
  IF Get(project_data, "scale", None) # "small"
    THEN <<ArchitectureComponent("Cache Layer", "cache",
             "Cache en memoire pour optimiser les performances",
             <<<<"R","e","d","i","s">>>>, <<"api_backend">>, "Redis Cluster", 4)>>
    ELSE << >>

\* if project_data.get('scale') in ['medium', 'large']: the cache component
CacheComponents(project_data) ==
  IF Get(project_data, "scale", None) \in {"medium", "large"}
    THEN <<ArchitectureComponent("Cache Layer", "cache",
             "Cache en memoire pour optimiser les performances",
             <<<<"R","e","d","i","s">>>>, <<"api_backend">>, "Redis Cluster", 4)>>
    ELSE << >>

\* The type-specific components with the payment gateway for saas as well.
SpecificComponentsPaidTypes(project_type) ==
  IF project_type \in {"ecommerce", "saas"}
    THEN <<ArchitectureComponent("Payment Gateway", "external_service",
             "Integration systeme de paiement securise",
             <<<<"S","t","r","i","p","e">>, <<"P","a","y","P","a","l"," ","A","P","I">>>>, <<"api_backend">>,
             "Service gere externe", 6)>>
  ELSE IF project_type = "mobile"
    THEN <<ArchitectureComponent("Push Notification Service", "notification_service",
             "Service de notifications push pour mobile",
             <<<<"F","C","M">>, <<"A","P","N","s">>>>, <<"api_backend">>,
             "Service gere externe", 5)>>
  ELSE << >>

\* if project_type == 'ecommerce': ... elif project_type == 'mobile': ...
SpecificComponents(project_type) ==
  IF project_type = "ecommerce"
    THEN <<ArchitectureComponent("Payment Gateway", "external_service",
             "Integration systeme de paiement securise",
             <<<<"S","t","r","i","p","e">>, <<"P","a","y","P","a","l"," ","A","P","I">>>>, <<"api_backend">>,
             "Service gere externe", 6)>>
  ELSE IF project_type = "mobile"
    THEN <<ArchitectureComponent("Push Notification Service", "notification_service",
             "Service de notifications push pour mobile",
             <<<<"F","C","M">>, <<"A","P","N","s">>>>, <<"api_backend">>,
             "Service gere externe", 5)>>
  ELSE << >>

generate_architecture_components(project_data, tech_recommendations) ==
  LET project_type == Get(project_data, "project_type", "custom")
      template == TemplateFor(project_type)
      frontend ==
        IF InList("web_frontend", template.base_components)
          THEN <<ArchitectureComponent("Frontend Application", "web_application",
                   "Interface utilisateur interactive et responsive",
                   <<TechNameOf(tech_recommendations, FRONTEND, <<"R","e","a","c","t">>)>>,
                   <<"api_backend">>, "CDN + Edge Caching", 6)>>
          ELSE << >>
      backend ==
        IF InList("api_backend", template.base_components)
          THEN <<ArchitectureComponent("API Backend", "rest_api",
                   "API REST pour la logique metier et gestion des donnees",
                   <<TechNameOf(tech_recommendations, BACKEND, <<"N","o","d","e",".","j","s">>), <<"E","x","p","r","e","s","s","/","F","a","s","t","i","f","y">>>>,
                   <<"database", "cache">>, "Horizontal scaling + Load Balancer", 8)>>
          ELSE << >>
      database ==
        IF InList("database", template.base_components)
          THEN <<ArchitectureComponent("Primary Database", "database",
                   "Stockage principal des donnees",
                   <<TechNameOf(tech_recommendations, DATABASE, <<"P","o","s","t","g","r","e","S","Q","L">>)>>,
                   <<"api_backend">>, "Read replicas + Partitioning", 7)>>
          ELSE << >>
  IN  frontend \o backend \o database
      \o CacheComponents(project_data) \o SpecificComponents(project_type)

-----------------------------------------------------------------------------
(* estimate_project_timeline                                               *)

\* The multipliers with those of MODERATE and COMPLEX exchanged.
ComplexityMultiplierExchanged(complexity) ==
  CASE complexity = SIMPLE -> 7
    [] complexity = MODERATE -> 13
    [] complexity = COMPLEX -> 10
    [] complexity = ENTERPRISE -> 16

\* complexity_multiplier of estimate_project_timeline, in tenths.
ComplexityMultiplier(complexity) ==
  CASE complexity = SIMPLE -> 7
    [] complexity = MODERATE -> 10
    [] complexity = COMPLEX -> 13
    [] complexity = ENTERPRISE -> 16

\* The total with the complexity_multiplier field of the template applied on
\* top of the multiplier of the tier.
TotalWeeksTemplateMultiplier(project_data, complexity) ==
  LET project_type == Get(project_data, "project_type", "custom")
      template == TemplateFor(project_type)
  IN  (template.estimated_weeks * ComplexityMultiplier(complexity)
         * template.complexity_multiplier) \div 100

\* int(base_weeks * complexity_multiplier[complexity]).  For the five
\* templates and the four multipliers the float product truncates to the
\* same integer as the exact product.
TotalWeeks(project_data, complexity) ==
  LET project_type == Get(project_data, "project_type", "custom")
      base_weeks == TemplateFor(project_type).estimated_weeks
  IN  (base_weeks * ComplexityMultiplier(complexity)) \div 10

\* A phase that depends on itself instead of its predecessor.
ProjectPhaseSelfDependent(name, description, duration_weeks, tasks, deliverables, dependencies, team_size) ==
  [name |-> name, description |-> description, duration_weeks |-> duration_weeks,
   tasks |-> tasks, deliverables |-> deliverables,
   dependencies |-> IF dependencies = << >> THEN << >> ELSE <<name>>,
   team_size |-> team_size, time_estimations |-> << >>]

ProjectPhase(name, description, duration_weeks, tasks, deliverables, dependencies, team_size) ==
  [name |-> name, description |-> description, duration_weeks |-> duration_weeks,
   tasks |-> tasks, deliverables |-> deliverables, dependencies |-> dependencies,
   team_size |-> team_size, time_estimations |-> << >>]

\* The duration without its minimum.
PhaseDurationNoMinimum(minimum, total_weeks, divisor) == total_weeks \div divisor

\* max(minimum, total_weeks // divisor)
PhaseDuration(minimum, total_weeks, divisor) == Max(minimum, total_weeks \div divisor)

Phases(total_weeks) ==
  <<ProjectPhase("Planning & Setup",
      "Analyse des besoins, setup environnement, architecture detaillee",
      PhaseDuration(1, total_weeks, 8),
      <<"Analyse des requirements", "Architecture systeme detaillee",
        "Setup environnement de developpement", "Configuration CI/CD",
        "Setup base de donnees">>,
      <<"Document d'architecture", "Environnement de developpement", "Repository configure">>,
      << >>, 2),
    ProjectPhase("Backend Development",
      "Developpement API, base de donnees, logique metier",
      PhaseDuration(2, total_weeks, 3),
      <<"Modeles de donnees", "API endpoints", "Authentification", "Logique metier",
        "Tests unitaires">>,
      <<"API fonctionnelle", "Documentation API", "Tests backend">>,
      <<"Planning & Setup">>, 2),
    ProjectPhase("Frontend Development",
      "Interface utilisateur, integration API",
      PhaseDuration(2, total_weeks, 3),
      <<"Interface utilisateur", "Integration API", "Gestion d'etat", "Responsive design",
        "Tests frontend">>,
      <<"Interface utilisateur complete", "Application responsive", "Tests frontend">>,
      <<"Backend Development">>, 2),
    ProjectPhase("Integration & Testing",
      "Tests d'integration, optimisation, preparation deploiement",
      PhaseDuration(1, total_weeks, 6),
      <<"Tests d'integration", "Tests E2E", "Optimisation performance", "Securite",
        "Preparation deploiement">>,
      <<"Application testee", "Rapport de securite", "Guide de deploiement">>,
      <<"Frontend Development">>, 3),
    ProjectPhase("Deployment & Launch",
      "Deploiement production, monitoring, documentation",
      PhaseDuration(1, total_weeks, 10),
      <<"Deploiement production", "Configuration monitoring", "Documentation utilisateur",
        "Formation equipe", "Go-live">>,
      <<"Application en production", "Monitoring actif", "Documentation complete">>,
      <<"Integration & Testing">>, 2)>>

\* Returns the tuple (phases, total_weeks).
estimate_project_timeline(project_data, complexity, components) ==
  LET total_weeks == TotalWeeks(project_data, complexity)
  IN  <<Phases(total_weeks), total_weeks>>

-----------------------------------------------------------------------------
(* estimate_costs                                                          *)

hourly_rate == 75

hours_per_week == 40

\* team_size = 2.5, in tenths
team_size == 25

BaseInfraCost(complexity) ==
  CASE complexity = SIMPLE -> 50
    [] complexity = MODERATE -> 150
    [] complexity = COMPLEX -> 300
    [] complexity = ENTERPRISE -> 600

\* The services with a CDN for every project type that has no table of its own.
ThirdPartyServicesDefaultCDN(project_data) ==
  LET project_type == Get(project_data, "project_type", None)
  IN  IF project_type = "ecommerce"
        THEN <<<<"Payment Processing", 29>>, <<"Email Service", 15>>, <<"CDN", 20>>>>
      ELSE IF project_type = "saas"
        THEN <<<<"Auth Service", 25>>, <<"Analytics", 35>>, <<"Monitoring", 25>>>>
      ELSE <<<<"CDN", 20>>>>

ThirdPartyServices(project_data) ==
  LET project_type == Get(project_data, "project_type", None)
  IN  IF project_type = "ecommerce"
        THEN <<<<"Payment Processing", 29>>, <<"Email Service", 15>>, <<"CDN", 20>>>>
      ELSE IF project_type = "saas"
        THEN <<<<"Auth Service", 25>>, <<"Analytics", 35>>, <<"Monitoring", 25>>>>
      ELSE << >>

\* The cost of a team of two.
DevelopmentCostTeamOfTwo(total_weeks) == (total_weeks * hours_per_week * 2) * hourly_rate

\* development_hours * hourly_rate, development_hours = total_weeks * 40 * 2.5
DevelopmentCost(total_weeks) ==
  ((total_weeks * hours_per_week * team_size) \div 10) * hourly_rate

\* (development_cost * 0.2) / 12: development_cost is a multiple of 7500, so
\* both divisions are exact.
MaintenanceMonthly(development_cost) == ((development_cost * 2) \div 10) \div 12

TotalMonthly(infrastructure_monthly, third_party_monthly, maintenance_monthly) ==
  infrastructure_monthly + third_party_monthly + maintenance_monthly

\* The yearly total with the monthly costs counted once.
TotalFirstYearOneMonth(development_cost, total_monthly) == development_cost + total_monthly

\* development_cost + (total_monthly * 12)
TotalFirstYear(development_cost, total_monthly) == development_cost + (total_monthly * 12)

\* total_monthly * 12
OngoingYearly(total_monthly) == total_monthly * 12

estimate_costs(project_data, complexity, total_weeks) ==
  LET development_cost == DevelopmentCost(total_weeks)
      infrastructure_monthly == BaseInfraCost(complexity)
      third_party_services == ThirdPartyServices(project_data)
      third_party_monthly == Sum(Values(third_party_services))
      maintenance_monthly == MaintenanceMonthly(development_cost)
      total_monthly == TotalMonthly(infrastructure_monthly, third_party_monthly,
                                    maintenance_monthly)
  IN  [development_cost |-> development_cost,
       infrastructure_cost_monthly |-> infrastructure_monthly,
       maintenance_cost_monthly |-> maintenance_monthly,
       third_party_services |-> third_party_services,
       total_first_year |-> TotalFirstYear(development_cost, total_monthly),
       ongoing_yearly |-> OngoingYearly(total_monthly)]

-----------------------------------------------------------------------------
(* generate_detailed_schema and its private helpers                        *)

\* _generate_architecture_description: the header line, then for every
\* component the values interpolated into its four lines.
ArchitectureDescription(components) ==
  <<"Architecture systeme recommandee:">>
  \o [i \in DOMAIN components |->
        <<components[i].name, components[i].type, components[i].description,
          components[i].technologies, components[i].scalability>>]

\* _generate_data_flow_description: a fixed text.
DataFlowDescription(components) == "Flux de donnees principal"

\* The recommendations with one more entry when the first technology was
\* not picked from the catalog key react.
GenerateRecommendationsByStack(complexity, tech_recommendations) ==
  <<"Commencer par un MVP (Minimum Viable Product) pour valider le concept",
    "Implementer une architecture modulaire pour faciliter la maintenance",
    "Mettre en place un systeme de monitoring des le debut",
    "Prevoir une strategie de sauvegarde et de recuperation",
    "Documenter l'API et maintenir la documentation a jour">>
  \o (IF complexity \in {COMPLEX, ENTERPRISE}
        THEN <<"Considerer une architecture microservices pour la scalabilite",
               "Implementer un systeme de CI/CD robuste",
               "Prevoir des tests automatises complets (unit, integration, E2E)",
               "Mettre en place un systeme de monitoring et d'alertes">>
        ELSE << >>)
  \o (IF tech_recommendations[1].name # <<"R","e","a","c","t">>
        THEN <<"Former l'equipe a la technologie frontend retenue">>
        ELSE << >>)

GenerateRecommendations(complexity, tech_recommendations) ==
  <<"Commencer par un MVP (Minimum Viable Product) pour valider le concept",
    "Implementer une architecture modulaire pour faciliter la maintenance",
    "Mettre en place un systeme de monitoring des le debut",
    "Prevoir une strategie de sauvegarde et de recuperation",
    "Documenter l'API et maintenir la documentation a jour">>
  \o (IF complexity \in {COMPLEX, ENTERPRISE}
        THEN <<"Considerer une architecture microservices pour la scalabilite",
               "Implementer un systeme de CI/CD robuste",
               "Prevoir des tests automatises complets (unit, integration, E2E)",
               "Mettre en place un systeme de monitoring et d'alertes">>
        ELSE << >>)

\* The risks without the entry of the project type.
IdentifyRisksNoTypeRisk(project_data, complexity) ==
  <<"Depassement de budget si les requirements changent",
    "Delais prolonges en cas de problemes techniques imprevus",
    "Problemes de performance si la charge utilisateur est sous-estimee">>
  \o (IF complexity = ENTERPRISE
        THEN <<"Complexite d'integration avec les systemes existants",
               "Defis de migration de donnees",
               "Besoin d'expertise technique avancee">>
        ELSE << >>)

IdentifyRisks(project_data, complexity) ==
  LET project_type == Get(project_data, "project_type", None)
  IN  <<"Depassement de budget si les requirements changent",
        "Delais prolonges en cas de problemes techniques imprevus",
        "Problemes de performance si la charge utilisateur est sous-estimee">>
      \o (IF complexity = ENTERPRISE
            THEN <<"Complexite d'integration avec les systemes existants",
                   "Defis de migration de donnees",
                   "Besoin d'expertise technique avancee">>
            ELSE << >>)
      \o (IF project_type = "ecommerce"
            THEN <<"Conformite PCI DSS pour le traitement des paiements">>
          ELSE IF project_type = "saas"
            THEN <<"Defis de scalabilite multi-tenant">>
          ELSE << >>)

IdentifySuccessFactors(project_data, complexity) ==
  <<"Equipe de developpement experimentee",
    "Requirements clairs et valides",
    "Tests utilisateurs reguliers",
    "Communication continue avec les stakeholders",
    "Approche agile avec livraisons iteratives",
    "Monitoring et feedback continus",
    "Documentation technique maintenue a jour">>

\* str.title() on the project types that occur: the first letter of the word
\* becomes upper case.
Title(project_type) ==
  CASE project_type = "ecommerce" -> "Ecommerce"
    [] project_type = "saas" -> "Saas"
    [] project_type = "mobile" -> "Mobile"
    [] project_type = "api" -> "Api"
    [] project_type = "dashboard" -> "Dashboard"
    [] project_type = "enterprise" -> "Enterprise"
    [] project_type = "blog" -> "Blog"
    [] project_type = "portfolio" -> "Portfolio"
    [] project_type = "custom" -> "Custom"
    [] project_type = "Custom" -> "Custom"

\* The estimation with the hours of a team of three as the estimate.
GlobalTimeEstimationTeamOfThree(total_weeks) ==
  [task_name |-> "Projet complet",
   estimated_hours |-> total_weeks * 40 * 3,
   min_hours |-> total_weeks * 40 * 2,
   max_hours |-> total_weeks * 40 * 3,
   dependencies |-> << >>,
   critical_path |-> TRUE,
   required_skills |-> <<"Full-stack development", "DevOps", "UI/UX">>]

\* TimeEstimation of the whole project: int(total_weeks * 40 * 2.5),
\* int(total_weeks * 40 * 2), int(total_weeks * 40 * 3).
GlobalTimeEstimation(total_weeks) ==
  [task_name |-> "Projet complet",
   estimated_hours |-> (total_weeks * 40 * 25) \div 10,
   min_hours |-> total_weeks * 40 * 2,
   max_hours |-> total_weeks * 40 * 3,
   dependencies |-> << >>,
   critical_path |-> TRUE,
   required_skills |-> <<"Full-stack development", "DevOps", "UI/UX">>]

\* Enum.value
EnumValue(member) ==
  CASE member = SIMPLE -> "simple"
    [] member = MODERATE -> "moderate"
    [] member = COMPLEX -> "complex"
    [] member = ENTERPRISE -> "enterprise"
    [] member = FRONTEND -> "frontend"
    [] member = BACKEND -> "backend"
    [] member = DATABASE -> "database"

\* {t.category.value: t.name for t in tech_recommendations}: a later entry
\* of a category replaces the value of an earlier one and keeps its place.
RECURSIVE TechStackSummary(_)
TechStackSummary(tech_recommendations) ==
  IF tech_recommendations = << >> THEN << >>
  ELSE LET n == Len(tech_recommendations)
           t == tech_recommendations[n]
           before == TechStackSummary(SubSeq(tech_recommendations, 1, n - 1))
           key == EnumValue(t.category)
       IN  IF HasKey(before, key)
             THEN [i \in DOMAIN before |->
                     IF before[i][1] = key THEN <<key, t.name>> ELSE before[i]]
             ELSE Append(before, <<key, t.name>>)

\* confidence_score = 0.85, in hundredths
confidence_score == 85

\* project_data.get('project_type', 'Custom').title() raises AttributeError
\* when the value under 'project_type' has no method title.
TitleRaises(project_data) == ~IsStrAtom(Get(project_data, "project_type", "Custom"))

\* An exception is raised inside the try block of generate_detailed_schema.
SchemaRaises(project_data) == AnalysisRaises(project_data) \/ TitleRaises(project_data)

\* The schema returned at time now (datetime.now()).
generate_detailed_schema(project_data, now) ==
  LET complexity == analyze_project_complexity(project_data)
      tech_recommendations == generate_tech_recommendations(project_data, complexity)
      architecture_components ==
        generate_architecture_components(project_data, tech_recommendations)
      timeline == estimate_project_timeline(project_data, complexity, architecture_components)
      project_phases == timeline[1]
      total_weeks == timeline[2]
      cost_estimation == estimate_costs(project_data, complexity, total_weeks)
  IN  [project_name |-> <<"Projet ", Title(Get(project_data, "project_type", "Custom"))>>,
       project_type |-> Get(project_data, "project_type", "custom"),
       description |-> Get(project_data, "description", ""),
       complexity |-> complexity,
       architecture_components |-> architecture_components,
       system_architecture |-> ArchitectureDescription(architecture_components),
       data_flow |-> DataFlowDescription(architecture_components),
       tech_recommendations |-> tech_recommendations,
       tech_stack_summary |-> TechStackSummary(tech_recommendations),
       project_phases |-> project_phases,
       total_duration_weeks |-> total_weeks,
       time_estimation |-> GlobalTimeEstimation(total_weeks),
       cost_estimation |-> cost_estimation,
       generated_at |-> now,
       confidence_score |-> confidence_score,
       recommendations |-> GenerateRecommendations(complexity, tech_recommendations),
       risks |-> IdentifyRisks(project_data, complexity),
       success_factors |-> IdentifySuccessFactors(project_data, complexity)]

-----------------------------------------------------------------------------
(* export_schema_to_dict.  dataclasses.asdict turns every dataclass        *)
(* instance into a dict with one key per declared field, in lists and dict *)
(* values too; instances and dicts are both records here, so asdict keeps  *)
(* the domain of each record.  recursive_convert then replaces every Enum  *)
(* member by its value and every datetime by its isoformat() text.  A      *)
(* datetime is the number of seconds elapsed since 2024-01-01T00:00:00     *)
(* (fewer than 60, microsecond 0).                                         *)

\* The decimal digit d as a character.
Digit(d) == <<"0", "1", "2", "3", "4", "5", "6", "7", "8", "9">>[d + 1]

\* datetime.isoformat()
IsoFormat(t) ==
  <<"2","0","2","4","-","0","1","-","0","1","T","0","0",":","0","0",":">>
  \o <<Digit(t \div 10), Digit(t % 10)>>

\* recursive_convert on the dict of a TechnologyRecommendation: category is
\* the only field that holds an Enum member.
ConvertRecommendation(t) ==
  [f \in DOMAIN t |-> IF f = "category" THEN EnumValue(t[f]) ELSE t[f]]

\* The conversion that does not descend into lists.
export_schema_to_dict_shallow(schema) ==
  [f \in DOMAIN schema |->
     CASE f = "complexity" -> EnumValue(schema[f])
       [] f = "generated_at" -> IsoFormat(schema[f])
       [] OTHER -> schema[f]]

\* recursive_convert(asdict(schema)): complexity is an Enum member,
\* generated_at a datetime, tech_recommendations a list of dicts holding an
\* Enum member each; every other value is made of str, int, float, bool,
\* list and dict only and is copied.
export_schema_to_dict(schema) ==
  [f \in DOMAIN schema |->
     CASE f = "complexity" -> EnumValue(schema[f])
       [] f = "generated_at" -> IsoFormat(schema[f])
       [] f = "tech_recommendations" ->
            [i \in DOMAIN schema[f] |-> ConvertRecommendation(schema[f][i])]
       [] OTHER -> schema[f]]

-----------------------------------------------------------------------------
(* The inputs callers supply.  An optional value is a sequence of length   *)
(* 0 (key absent from project_data) or 1 (key present with that value).    *)

Field(key, optional) == IF optional = << >> THEN << >> ELSE (key :> optional[1])

ProjectData(project_type, scale, requirements, frontend, backend, database) ==
  Field("project_type", project_type) @@ Field("scale", scale)
  @@ ("description" :> "Une application de gestion")
  @@ Field("requirements", requirements)
  @@ Field("frontend_preference", frontend)
  @@ Field("backend_preference", backend)
  @@ Field("database_preference", database)

Absent == << >>

ProjectTypes ==
  {Absent, <<"ecommerce">>, <<"saas">>, <<"mobile">>, <<"api">>, <<"dashboard">>,
   <<"enterprise">>, <<"blog">>, <<"int 42">>}

Scales == {Absent, <<"small">>, <<"medium">>, <<"large">>, <<"huge">>}

\* The number 42 under a key whose value the code treats as a str.
FortyTwo == <<"int", "4", "2">>

RequirementTexts ==
  {Absent,
   <<FortyTwo>>,
   <<<< >>>>,
   <<<<"s","i","t","e"," ","v","i","t","r","i","n","e">>>>,
   <<<<"P","a","i","e","m","e","n","t"," ","e","n"," ","l","i","g","n","e">>>>,
   <<<<"t","e","m","p","s"," ","r","e'","e","l">>>>,
   <<<<"M","I","C","R","O","S","E","R","V","I","C","E","S"," ","e","t"," ","P","E","R","F","O","R","M","A","N","C","E">>>>,
   <<<<"p","a","i","e","m","e","n","t"," ","s","e'","c","u","r","i","s","e'"," ","e","n"," ","t","e","m","p","s"," ","r","e'","e","l">>>>}

FrontendPreferences ==
  {Absent, <<<< >>>>, <<<<"r","e","a","c","t">>>>, <<<<"v","u","e">>>>, <<<<"n","e","x","t","j","s">>>>, <<<<"R","e","a","c","t">>>>,
   <<<<"a","n","g","u","l","a","r">>>>}

BackendPreferences ==
  {Absent, <<<< >>>>, <<<<"n","o","d","e","j","s">>>>, <<<<"p","y","t","h","o","n">>>>, <<<<"j","a","v","a">>>>, <<<<"N","o","d","e","J","S">>>>,
   <<<<"p","h","p">>>>}

DatabasePreferences ==
  {Absent, <<<< >>>>, <<<<"p","o","s","t","g","r","e","s","q","l">>>>, <<<<"m","o","n","g","o","d","b">>>>, <<<<"r","e","d","i","s">>>>,
   <<<<"M","o","n","g","o","D","B">>>>, <<<<"m","y","s","q","l">>>>}

\* Every project type, scale and requirements text, without preferences.
CoreInputs ==
  {ProjectData(pt, sc, rq, Absent, Absent, Absent) :
     pt \in ProjectTypes, sc \in Scales, rq \in RequirementTexts}

\* Every combination of the three preferences, for one project.
PreferenceInputs ==
  {ProjectData(<<"ecommerce">>, <<"medium">>, <<<<"P","a","i","e","m","e","n","t"," ","e","n"," ","l","i","g","n","e">>>>, fe, be, db) :
     fe \in FrontendPreferences, be \in BackendPreferences, db \in DatabasePreferences}

ProjectInputs == CoreInputs \cup PreferenceInputs

\* Largest total_weeks passed to estimate_costs directly.
MaxWeeks == 32

\* Largest reading of the clock.
MaxTime == 2

Tiers == {SIMPLE, MODERATE, COMPLEX, ENTERPRISE}

-----------------------------------------------------------------------------
(* State machine: a SchemaGenerator instance and the calls made on it.     *)

NoCall == [op |-> "none"]

\* SchemaGenerator.__init__
NewGenerator ==
  /\ project_templates = LoadTemplates
  /\ tech_database = LoadTechDatabase
  /\ last = NoCall
  /\ kept = NoCall

\* A new generator and the mapping of a request.
Init ==
  /\ NewGenerator
  /\ data \in ProjectInputs

\* A call record holds the operation, its arguments, the exception that left
\* the call (None when it returned) and, when it returned, the result.
AnalyzeProjectComplexity(arg) ==
  /\ data' = arg
  /\ last' = IF AnalysisRaises(arg)
               THEN [op |-> "analyze_project_complexity",
                     project_data |-> arg,
                     raised |-> "AttributeError"]
               ELSE [op |-> "analyze_project_complexity",
                     project_data |-> arg,
                     raised |-> None,
                     result |-> analyze_project_complexity(arg)]
  /\ UNCHANGED <<project_templates, tech_database, kept>>

GenerateTechRecommendations(arg, complexity) ==
  /\ data' = arg
  /\ last' = [op |-> "generate_tech_recommendations",
              project_data |-> arg,
              raised |-> None,
              complexity |-> complexity,
              result |-> generate_tech_recommendations(arg, complexity)]
  /\ UNCHANGED <<project_templates, tech_database, kept>>

GenerateArchitectureComponents(arg, tech_recommendations) ==
  /\ data' = arg
  /\ last' = [op |-> "generate_architecture_components",
              project_data |-> arg,
              raised |-> None,
              tech_recommendations |-> tech_recommendations,
              result |-> generate_architecture_components(arg, tech_recommendations)]
  /\ UNCHANGED <<project_templates, tech_database, kept>>

EstimateProjectTimeline(arg, complexity, components) ==
  /\ data' = arg
  /\ last' = [op |-> "estimate_project_timeline",
              project_data |-> arg,
              raised |-> None,
              complexity |-> complexity,
              components |-> components,
              result |-> estimate_project_timeline(arg, complexity, components)]
  /\ UNCHANGED <<project_templates, tech_database, kept>>

EstimateCosts(arg, complexity, total_weeks) ==
  /\ data' = arg
  /\ last' = [op |-> "estimate_costs",
              project_data |-> arg,
              raised |-> None,
              complexity |-> complexity,
              total_weeks |-> total_weeks,
              result |-> estimate_costs(arg, complexity, total_weeks)]
  /\ UNCHANGED <<project_templates, tech_database, kept>>

\* The call with the except clause re-raising the exception it caught.
GenerateDetailedSchemaUnwrapped(arg, now) ==
  /\ data' = arg
  /\ last' = IF SchemaRaises(arg)
               THEN [op |-> "generate_detailed_schema",
                     project_data |-> arg,
                     raised |-> "AttributeError"]
               ELSE [op |-> "generate_detailed_schema",
                     project_data |-> arg,
                     raised |-> None,
                     result |-> generate_detailed_schema(arg, now)]
  /\ UNCHANGED <<project_templates, tech_database, kept>>

\* The call with a failure recorded in the generator: the template of the
\* default type is replaced when the exception is caught.
GenerateDetailedSchemaKeepingError(arg, now) ==
  /\ data' = arg
  /\ last' = IF SchemaRaises(arg)
               THEN [op |-> "generate_detailed_schema",
                     project_data |-> arg,
                     raised |-> "DevPlanException"]
               ELSE [op |-> "generate_detailed_schema",
                     project_data |-> arg,
                     raised |-> None,
                     result |-> generate_detailed_schema(arg, now)]
  /\ project_templates' = IF SchemaRaises(arg)
                            THEN [project_templates EXCEPT !["api"] = project_templates["dashboard"]]
                            ELSE project_templates
  /\ UNCHANGED <<tech_database, kept>>

\* try: ... return schema / except Exception: raise DevPlanException(...)
GenerateDetailedSchema(arg, now) ==
  /\ data' = arg
  /\ last' = IF SchemaRaises(arg)
               THEN [op |-> "generate_detailed_schema",
                     project_data |-> arg,
                     raised |-> "DevPlanException"]
               ELSE [op |-> "generate_detailed_schema",
                     project_data |-> arg,
                     raised |-> None,
                     result |-> generate_detailed_schema(arg, now)]
  /\ UNCHANGED <<project_templates, tech_database, kept>>

\* export_schema_to_dict reads its argument only.
ExportSchemaToDict(schema) ==
  /\ last' = [op |-> "export_schema_to_dict",
              schema |-> schema,
              raised |-> None,
              result |-> export_schema_to_dict(schema)]
  /\ UNCHANGED <<project_templates, tech_database, data, kept>>

\* The components the generator builds for a mapping at a tier.
ComponentsFor(arg, complexity) ==
  generate_architecture_components(arg, generate_tech_recommendations(arg, complexity))

\* call is a call of op that returned.
IsCall(call, op) == call.op = op /\ call.raised = None

\* No call has been made on the generator yet.
Fresh == last = NoCall

\* A request: the handlers of routes/main.py construct a SchemaGenerator for
\* the request and call it with the mapping of the request.  Sequences of
\* calls on one generator are the subject of SpecSeq.
Next ==
  \/ Fresh /\ AnalyzeProjectComplexity(data)
  \/ \E c \in Tiers : Fresh /\ GenerateTechRecommendations(data, c)
  \/ \E c \in Tiers :
       Fresh /\ GenerateArchitectureComponents(data, generate_tech_recommendations(data, c))
  \/ \E c \in Tiers : Fresh /\ EstimateProjectTimeline(data, c, ComponentsFor(data, c))
  \/ \E c \in Tiers, w \in 0..MaxWeeks : Fresh /\ EstimateCosts(data, c, w)
  \/ \E now \in 0..MaxTime : Fresh /\ GenerateDetailedSchema(data, now)
  \/ \E now \in 0..MaxTime :
       /\ Fresh
       /\ ~SchemaRaises(data)
       /\ ExportSchemaToDict(generate_detailed_schema(data, now))

Spec == Init /\ [][Next]_vars

-----------------------------------------------------------------------------
(* One generator instance serving any sequence of calls.                   *)

\* The inputs that differ in the scoring factors only.
FactorInputs ==
  {ProjectData(pt, sc, rq, Absent, Absent, Absent) :
     pt \in {<<"api">>, <<"ecommerce">>, <<"saas">>},
     sc \in {<<"small">>, <<"medium">>, <<"large">>},
     rq \in {Absent, <<<<"P","a","i","e","m","e","n","t"," ","e","n"," ","l","i","g","n","e">>>>, <<<<"t","e","m","p","s"," ","r","e'","e","l">>>>,
             <<<<"M","I","C","R","O","S","E","R","V","I","C","E","S"," ","e","t"," ","P","E","R","F","O","R","M","A","N","C","E">>>>}}

SampleInputs ==
  {ProjectData(<<"ecommerce">>, <<"large">>, <<<<"p","a","i","e","m","e","n","t"," ","s","e'","c","u","r","i","s","e'"," ","e","n"," ","t","e","m","p","s"," ","r","e'","e","l">>>>,
               Absent, Absent, Absent),
   ProjectData(<<"blog">>, <<"small">>, <<<< >>>>, Absent, Absent, Absent),
   ProjectData(<<"ecommerce">>, <<"medium">>, <<<<"P","a","i","e","m","e","n","t"," ","e","n"," ","l","i","g","n","e">>>>,
               <<<<"r","e","a","c","t">>>>, <<<<"N","o","d","e","J","S">>>>, <<<<"m","y","s","q","l">>>>)}

\* A mapping on which generate_detailed_schema fails: requirements is the
\* number 42.
FailingInputs ==
  {ProjectData(<<"api">>, <<"small">>, <<FortyTwo>>, Absent, Absent, Absent)}

SampleTiers == {SIMPLE, ENTERPRISE}

InitSeq ==
  /\ NewGenerator
  /\ data \in SampleInputs

\* A caller keeps what the last call returned while further calls are made.
Keep ==
  /\ last # NoCall
  /\ kept' = last
  /\ UNCHANGED <<project_templates, tech_database, data, last>>

\* The caller replaces the generator by a newly constructed one.
NewSchemaGenerator ==
  /\ project_templates' = LoadTemplates
  /\ tech_database' = LoadTechDatabase
  /\ UNCHANGED <<data, last, kept>>

NextSeq ==
  \/ \E pd \in FactorInputs \cup SampleInputs \cup FailingInputs : AnalyzeProjectComplexity(pd)
  \/ \E pd \in SampleInputs, c \in SampleTiers : GenerateTechRecommendations(pd, c)
  \/ \E pd \in SampleInputs, c \in SampleTiers :
       GenerateArchitectureComponents(pd, generate_tech_recommendations(pd, c))
  \/ \E pd \in SampleInputs, c \in SampleTiers :
       EstimateProjectTimeline(pd, c, ComponentsFor(pd, c))
  \/ \E pd \in SampleInputs, c \in SampleTiers, w \in {1, MaxWeeks} : EstimateCosts(pd, c, w)
  \/ \E pd \in SampleInputs \cup FailingInputs, now \in 0..MaxTime :
       GenerateDetailedSchema(pd, now)
  \/ IsCall(last, "generate_detailed_schema") /\ ExportSchemaToDict(last.result)
  \/ Keep
  \/ NewSchemaGenerator

SpecSeq == InitSeq /\ [][NextSeq]_vars

-----------------------------------------------------------------------------
(* ValidationService.validate_project_data and the route                   *)
(* POST /api/schema/generate-detailed of routes/main.py.  Every value of a  *)
(* request is a str of characters or the number 42; the validator hands    *)
(* project_type and scale to the generator as the TLA+ strings the         *)
(* generator's tables are keyed by (Atom).  The warnings of the validator   *)
(* influence neither is_valid nor cleaned_data and are left out.            *)

min_description_length == 10

max_description_length == 2000

max_requirements_length == 1000

valid_project_types ==
  {<<"e","c","o","m","m","e","r","c","e">>,
   <<"b","l","o","g">>,
   <<"s","a","a","s">>,
   <<"p","o","r","t","f","o","l","i","o">>,
   <<"a","p","i">>,
   <<"m","o","b","i","l","e">>,
   <<"d","a","s","h","b","o","a","r","d">>,
   <<"c","u","s","t","o","m">>}

valid_scales == {<<"s","m","a","l","l">>, <<"m","e","d","i","u","m">>, <<"l","a","r","g","e">>}

\* The TLA+ string that stands for a str of characters.
Atom(chars) ==
  CASE chars = <<"e","c","o","m","m","e","r","c","e">> -> "ecommerce"
    [] chars = <<"b","l","o","g">> -> "blog"
    [] chars = <<"s","a","a","s">> -> "saas"
    [] chars = <<"p","o","r","t","f","o","l","i","o">> -> "portfolio"
    [] chars = <<"a","p","i">> -> "api"
    [] chars = <<"m","o","b","i","l","e">> -> "mobile"
    [] chars = <<"d","a","s","h","b","o","a","r","d">> -> "dashboard"
    [] chars = <<"c","u","s","t","o","m">> -> "custom"
    [] chars = <<"s","m","a","l","l">> -> "small"
    [] chars = <<"m","e","d","i","u","m">> -> "medium"
    [] chars = <<"l","a","r","g","e">> -> "large"

\* "if value:" for value = data.get(key): the key is present and its value
\* is neither None nor the empty str.
Present(raw, key) == key \in DOMAIN raw /\ raw[key] # << >>

\* str(v)
Str(v) == IF IsStr(v) THEN v ELSE Tail(v)

Whitespace == {" "}

RECURSIVE LStrip(_)
LStrip(s) == IF s # << >> /\ s[1] \in Whitespace THEN LStrip(Tail(s)) ELSE s

RECURSIVE RStrip(_)
RStrip(s) == IF s # << >> /\ s[Len(s)] \in Whitespace THEN RStrip(SubSeq(s, 1, Len(s) - 1)) ELSE s

\* str.strip()
Strip(s) == RStrip(LStrip(s))

\* html.escape of one character (quote=True).
EscapeChar(c) ==
  CASE c = "&" -> <<"&","a","m","p",";">>
    [] c = "<" -> <<"&","l","t",";">>
    [] c = ">" -> <<"&","g","t",";">>
    [] c = "\"" -> <<"&","q","u","o","t",";">>
    [] c = "'" -> <<"&","#","x","2","7",";">>
    [] OTHER -> <<c>>

\* html.escape(text)
RECURSIVE Escape(_)
Escape(text) == IF text = << >> THEN << >> ELSE EscapeChar(text[1]) \o Escape(Tail(text))

\* re.sub(r'\s+', ' ', text): every run of whitespace becomes one space.
RECURSIVE CollapseSpaces(_)
CollapseSpaces(text) ==
  IF text = << >> THEN << >>
  ELSE IF text[1] \in Whitespace
         THEN IF Len(text) > 1 /\ text[2] \in Whitespace
                THEN CollapseSpaces(Tail(text))
                ELSE <<" ">> \o CollapseSpaces(Tail(text))
         ELSE <<text[1]>> \o CollapseSpaces(Tail(text))

\* _sanitize_text.  The texts of the requests hold no control character and
\* none of "<", ">", "&", the characters bleach.clean acts on, so the first
\* two substitutions leave them as they are.
SanitizeText(text) ==
  IF text = << >> THEN << >> ELSE Strip(CollapseSpaces(Escape(text)))

\* _validate_project_type(data.get('project_type'))
ValidateProjectType(raw) ==
  IF ~Present(raw, "project_type")
    THEN [error |-> "Le type de projet est obligatoire", value |-> None]
    ELSE LET project_type == Strip(Lower(Str(raw["project_type"])))
         IN  IF project_type \notin valid_project_types
               THEN [error |-> "Type de projet invalide", value |-> None]
               ELSE [error |-> None, value |-> Atom(project_type)]

\* _validate_description(data.get('description'))
ValidateDescription(raw) ==
  IF ~Present(raw, "description")
    THEN [error |-> "La description du projet est obligatoire", value |-> None]
    ELSE LET description == Strip(Str(raw["description"]))
         IN  IF Len(description) < min_description_length
               THEN [error |-> "La description doit contenir au moins 10 caracteres", value |-> None]
               ELSE IF Len(description) > max_description_length
                 THEN [error |-> "La description ne peut pas depasser 2000 caracteres", value |-> None]
                 ELSE [error |-> None, value |-> SanitizeText(description)]

\* _validate_scale(data.get('scale'))
ValidateScale(raw) ==
  IF ~Present(raw, "scale")
    THEN [error |-> None, value |-> "medium"]
    ELSE LET scale == Strip(Lower(Str(raw["scale"])))
         IN  IF scale \notin valid_scales
               THEN [error |-> "Echelle invalide", value |-> None]
               ELSE [error |-> None, value |-> Atom(scale)]

\* The validator handing over the value of the request as it came.
ValidateRequirementsRaw(raw) ==
  IF ~Present(raw, "requirements")
    THEN [error |-> None, value |-> << >>]
    ELSE [error |-> None, value |-> raw["requirements"]]

\* _validate_requirements(data.get('requirements'))
ValidateRequirements(raw) ==
  IF ~Present(raw, "requirements")
    THEN [error |-> None, value |-> << >>]
    ELSE LET requirements == Strip(Str(raw["requirements"]))
         IN  IF Len(requirements) > max_requirements_length
               THEN [error |-> "Les exigences ne peuvent pas depasser 1000 caracteres", value |-> None]
               ELSE [error |-> None, value |-> SanitizeText(requirements)]

\* One preference of _validate_technology_preferences: recognised or not,
\* the lower-cased and stripped text is kept; '' when there is none.
CleanedPreference(raw, key) ==
  IF Present(raw, key) THEN Strip(Lower(Str(raw[key]))) ELSE << >>

\* _validate_technology_preferences(data)['cleaned_data']
ValidateTechnologyPreferences(raw) ==
  ("frontend_preference" :> CleanedPreference(raw, "frontend_preference"))
  @@ ("backend_preference" :> CleanedPreference(raw, "backend_preference"))
  @@ ("database_preference" :> CleanedPreference(raw, "database_preference"))

\* _validate_optional_fields(data) for a request that carries none of
\* budget, timeline and team_size.
ValidateOptionalFields(raw) ==
  ("budget" :> None) @@ ("timeline" :> None) @@ ("team_size" :> None)

\* The entry of cleaned_data and the error a validation result contributes.
CleanedEntry(key, validated) == IF validated.error = None THEN key :> validated.value ELSE << >>

ErrorEntry(validated) == IF validated.error = None THEN << >> ELSE <<validated.error>>

\* validate_project_data(data)
validate_project_data(raw) ==
  LET project_type_result == ValidateProjectType(raw)
      description_result == ValidateDescription(raw)
      scale_result == ValidateScale(raw)
      requirements_result == ValidateRequirements(raw)
      errors == ErrorEntry(project_type_result) \o ErrorEntry(description_result)
                \o ErrorEntry(scale_result) \o ErrorEntry(requirements_result)
      cleaned_data == CleanedEntry("project_type", project_type_result)
                      @@ CleanedEntry("description", description_result)
                      @@ CleanedEntry("scale", scale_result)
                      @@ CleanedEntry("requirements", requirements_result)
                      @@ ValidateTechnologyPreferences(raw)
                      @@ ValidateOptionalFields(raw)
  IN  [is_valid |-> errors = << >>,
       errors |-> errors,
       cleaned_data |-> cleaned_data]

\* The response of the route: the status and the body.
GenerateDetailedResponse(raw, now) ==
  IF raw = << >>
    THEN [status |-> 400, error |-> "Aucune donnee fournie"]
    ELSE LET validation_result == validate_project_data(raw)
         IN  IF ~validation_result.is_valid
               THEN [status |-> 400, error |-> "Donnees invalides",
                     validation_errors |-> validation_result.errors]
               ELSE IF SchemaRaises(validation_result.cleaned_data)
                 THEN [status |-> 500, type |-> "schema_generation_error"]
                 ELSE [status |-> 200,
                       schema |-> export_schema_to_dict(
                                    generate_detailed_schema(validation_result.cleaned_data, now)),
                       project_data |-> validation_result.cleaned_data]

\* The mapping of a request.
RequestData(project_type, description, scale, requirements, frontend, backend, database) ==
  Field("project_type", project_type) @@ Field("description", description)
  @@ Field("scale", scale) @@ Field("requirements", requirements)
  @@ Field("frontend_preference", frontend)
  @@ Field("backend_preference", backend)
  @@ Field("database_preference", database)

RequestProjectTypes ==
  {Absent, <<<< >>>>, <<FortyTwo>>, <<<<"b","l","o","g">>>>,
   <<<<"P","o","r","t","f","o","l","i","o">>>>,
   <<<<" ","c","u","s","t","o","m"," ">>>>,
   <<<<"A","P","I">>>>,
   <<<<"e","c","o","m","m","e","r","c","e">>>>,
   <<<<"s","a","a","s">>>>,
   <<<<"w","i","k","i">>>>}

RequestDescriptions ==
  {Absent, <<<<"s","i","t","e">>>>, <<<<"L","e"," "," ","s","i","t","e"," ","d","e"," ","l","'","e","q","u","i","p","e"," ">>>>}

RequestScales == {Absent, <<<<"s","m","a","l","l">>>>, <<<<"L","A","R","G","E">>>>, <<<<" ","M","e","d","i","u","m">>>>, <<<<"h","u","g","e">>>>}

RequestRequirements ==
  {Absent, <<FortyTwo>>, <<<<" ","t","e","m","p","s"," "," ","r","e'","e","l"," ">>>>, <<<<"P","a","i","e","m","e","n","t">>>>}

RequestInputs ==
  {<< >>}
  \cup {RequestData(pt, <<<<"L","e"," "," ","s","i","t","e"," ","d","e"," ","l","'","e","q","u","i","p","e"," ">>>>, sc, rq, Absent, Absent, Absent) :
          pt \in RequestProjectTypes, sc \in RequestScales, rq \in RequestRequirements}
  \cup {RequestData(<<<<"b","l","o","g">>>>, d, Absent, Absent, Absent, Absent, Absent) :
          d \in RequestDescriptions}
  \cup {RequestData(<<<<"p","o","r","t","f","o","l","i","o">>>>, <<<<"L","e"," "," ","s","i","t","e"," ","d","e"," ","l","'","e","q","u","i","p","e"," ">>>>, <<<<"l","a","r","g","e">>>>, Absent, fe, be, db) :
          fe \in {Absent, <<<<"A","n","g","u","l","a","r">>>>, <<<<"r","e","a","c","t">>>>},
          be \in {Absent, <<<<"P","H","P">>>>, <<<<"n","o","d","e","j","s">>>>},
          db \in {Absent, <<<<"M","y","S","Q","L">>>>, <<<<"m","o","n","g","o","d","b">>>>}}

\* A generator and the mapping of a request.
InitRoute ==
  /\ NewGenerator
  /\ data \in RequestInputs

\* ValidationService().validate_project_data(data)
ValidateProjectData(arg) ==
  /\ last' = [op |-> "validate_project_data",
              data |-> arg,
              raised |-> None,
              result |-> validate_project_data(arg)]
  /\ UNCHANGED <<project_templates, tech_database, data, kept>>

\* POST /api/schema/generate-detailed: validation, generation on the
\* cleaned data, export, response.
GenerateDetailedRoute(arg, now) ==
  /\ last' = [op |-> "POST /api/schema/generate-detailed",
              data |-> arg,
              raised |-> None,
              result |-> GenerateDetailedResponse(arg, now)]
  /\ UNCHANGED <<project_templates, tech_database, data, kept>>

NextRoute ==
  \/ Fresh /\ data # << >> /\ ValidateProjectData(data)
  \/ \E now \in 0..MaxTime : Fresh /\ GenerateDetailedRoute(data, now)

SpecRoute == InitRoute /\ [][NextRoute]_vars

-----------------------------------------------------------------------------
(* Properties of single calls, checked under Spec.                         *)


DurationSum(phases) == Sum([i \in DOMAIN phases |-> phases[i].duration_weeks])

\* C1: Timeline consistency.  The duration_weeks of the five phases returned
\* by estimate_project_timeline add up to the total_weeks of the same call,
\* and total_duration_weeks of a schema is the sum over its project_phases.
C1_TimelineConsistency ==
  /\ IsCall(last, "estimate_project_timeline")
       => DurationSum(last.result[1]) = last.result[2]
  /\ IsCall(last, "generate_detailed_schema")
       => DurationSum(last.result.project_phases) = last.result.total_duration_weeks

\* C2: Cost algebra.  In the CostEstimation returned by estimate_costs (and in
\* the one of a schema) total_first_year is development_cost plus twelve
\* times the monthly costs (infrastructure, third-party services,
\* maintenance), and ongoing_yearly is twelve times the monthly costs.
CostAlgebra(cost) ==
  LET monthly == cost.infrastructure_cost_monthly
                 + Sum(Values(cost.third_party_services))
                 + cost.maintenance_cost_monthly
  IN  /\ cost.total_first_year = cost.development_cost + 12 * monthly
      /\ cost.ongoing_yearly = 12 * monthly

C2_CostAlgebra ==
  /\ IsCall(last, "estimate_costs") => CostAlgebra(last.result)
  /\ IsCall(last, "generate_detailed_schema") => CostAlgebra(last.result.cost_estimation)

C2_Witness ==
  /\ IsCall(last, "estimate_costs")
  /\ last.total_weeks = 3
  /\ last.complexity = COMPLEX
  /\ last.result.third_party_services # << >>
  /\ last.result.total_first_year = 22500 + 12 * (300 + 64 + 375)

\* The four scoring factors as the documentation states them.
ScaleFactor(project_data) ==
  LET scale == Get(project_data, "scale", None)
  IN  CASE scale = "large" -> 3 [] scale = "medium" -> 2 [] OTHER -> 1

TypeFactor(project_data) ==
  LET type == Get(project_data, "project_type", None)
  IN  CASE type \in {"saas", "enterprise"} -> 2
        [] type \in {"ecommerce", "dashboard"} -> 1
        [] OTHER -> 0

SecurityFactor(project_data) ==
  LET text == Lower(Get(project_data, "requirements", << >>))
  IN  IF \E t \in {<<"p","a","i","e","m","e","n","t">>, <<"s","e'","c","u","r","i","t","e'">>, <<"p","e","r","f","o","r","m","a","n","c","e">>, <<"s","c","a","l","a","b","i","l","i","t","e'">>} :
           Contains(text, t)
        THEN 1 ELSE 0

RealTimeFactor(project_data) ==
  LET text == Lower(Get(project_data, "requirements", << >>))
  IN  IF \E t \in {<<"t","e","m","p","s"," ","r","e'","e","l">>, <<"m","i","c","r","o","s","e","r","v","i","c","e","s">>, <<"m","u","l","t","i","-","t","e","n","a","n","t">>} :
           Contains(text, t)
        THEN 1 ELSE 0

StatedScore(project_data) ==
  ScaleFactor(project_data) + TypeFactor(project_data)
  + SecurityFactor(project_data) + 2 * RealTimeFactor(project_data)

StatedTier(score) ==
  CASE score <= 2 -> SIMPLE
    [] score > 2 /\ score <= 4 -> MODERATE
    [] score > 4 /\ score <= 6 -> COMPLEX
    [] OTHER -> ENTERPRISE

\* C3: analyze_project_complexity returns the tier of the stated score:
\* scale points (3 large, 2 medium, 1 otherwise) plus project type points
\* (2 saas/enterprise, 1 ecommerce/dashboard) plus 1 for a keyword of the
\* first group and 2 for a keyword of the second group in the lower-cased
\* requirements; SIMPLE up to 2, MODERATE up to 4, COMPLEX up to 6,
\* ENTERPRISE above.
C3_ComplexityScore ==
  IsCall(last, "analyze_project_complexity")
    => last.result = StatedTier(StatedScore(last.project_data))

\* ecommerce, large, one keyword of each group: score 7, ENTERPRISE.
C3_Witness ==
  /\ IsCall(last, "analyze_project_complexity")
  /\ last.project_data = ProjectData(<<"ecommerce">>, <<"large">>,
                           <<<<"M","I","C","R","O","S","E","R","V","I","C","E","S"," ","e","t"," ","P","E","R","F","O","R","M","A","N","C","E">>>>, Absent, Absent, Absent)
  /\ StatedScore(last.project_data) = 7
  /\ last.result = ENTERPRISE

Categories == <<FRONTEND, BACKEND, DATABASE>>

PreferenceKeys == <<"frontend_preference", "backend_preference", "database_preference">>

\* The preference of category i is given as a non-empty string.
PreferenceGiven(project_data, i) ==
  /\ PreferenceKeys[i] \in DOMAIN project_data
  /\ project_data[PreferenceKeys[i]] # << >>

Range(s) == {s[i] : i \in DOMAIN s}

\* C6: Coverage.  generate_tech_recommendations returns exactly three
\* recommendations, of categories FRONTEND, BACKEND, DATABASE in that order,
\* whatever the preferences (absent, empty, recognised or not) and the tier.
C6_Coverage ==
  IsCall(last, "generate_tech_recommendations")
    => /\ Len(last.result) = 3
       /\ \A i \in 1..3 : last.result[i].category = Categories[i]

\* Unrecognised frontend, empty backend and absent database preference.
C6_Witness ==
  /\ IsCall(last, "generate_tech_recommendations")
  /\ PreferenceGiven(last.project_data, 1)
  /\ ~HasKey(tech_database[FRONTEND], last.project_data["frontend_preference"])
  /\ "backend_preference" \in DOMAIN last.project_data
  /\ last.project_data["backend_preference"] = << >>
  /\ "database_preference" \notin DOMAIN last.project_data
  /\ Len(last.result) = 3

\* C7: a preference that equals a catalog key of its category up to case
\* selects that catalog entry, with a reason marking the user's preference,
\* whatever the tier.
C7_CaseInsensitivePreference ==
  IsCall(last, "generate_tech_recommendations")
    => \A i \in 1..3 :
         LET catalog == tech_database[Categories[i]]
             pref == last.project_data[PreferenceKeys[i]]
         IN  (PreferenceGiven(last.project_data, i) /\ HasKey(catalog, Lower(pref)))
               => /\ last.result[i].name = Lookup(catalog, Lower(pref)).name
                  /\ last.result[i].reason[1] = "Preference utilisateur - "

\* C8: a recommendation selected by explicit preference lists as
\* alternatives every catalog key of its category except the selected one,
\* and not the selected one.
C8_AlternativesExcludeSelected ==
  IsCall(last, "generate_tech_recommendations")
    => \A i \in 1..3 :
         PreferenceSelects(last.project_data, PreferenceKeys[i], Categories[i])
           => Range(last.result[i].alternatives)
                = Range(Keys(tech_database[Categories[i]]))
                    \ {last.project_data[PreferenceKeys[i]]}

\* project_data without one key.
Without(project_data, key) == [k \in DOMAIN project_data \ {key} |-> project_data[k]]

\* C9: Unknown-preference fallback.  A preference that is non-empty but not
\* a catalog key of its category gets, for that category, exactly the
\* recommendation returned when the preference is not given at all.
C9_UnknownPreferenceFallback ==
  IsCall(last, "generate_tech_recommendations")
    => \A i \in 1..3 :
         (/\ PreferenceGiven(last.project_data, i)
          /\ ~HasKey(tech_database[Categories[i]], last.project_data[PreferenceKeys[i]]))
           => /\ Len(last.result) = 3
              /\ last.result[i]
                   = generate_tech_recommendations(
                       Without(last.project_data, PreferenceKeys[i]), last.complexity)[i]

\* angular, php and mysql at tier ENTERPRISE: the automatic picks.
C9_Witness ==
  /\ IsCall(last, "generate_tech_recommendations")
  /\ last.complexity = ENTERPRISE
  /\ \A i \in 1..3 : PreferenceGiven(last.project_data, i)
  /\ last.project_data["frontend_preference"] = <<"a","n","g","u","l","a","r">>
  /\ last.project_data["backend_preference"] = <<"p","h","p">>
  /\ last.project_data["database_preference"] = <<"m","y","s","q","l">>
  /\ last.result[1].name = <<"R","e","a","c","t">>
  /\ last.result[2].name = <<"J","a","v","a">>
  /\ last.result[3].name = <<"P","o","s","t","g","r","e","S","Q","L">>

Entries(category) ==
  {tech_database[category][i][2] : i \in DOMAIN tech_database[category]}

CurveRank(learning_curve) ==
  CASE learning_curve = "easy" -> 1
    [] learning_curve = "moderate" -> 2
    [] learning_curve = "difficult" -> 3

\* C10: Automatic selection policy against the catalog's metadata.  Without
\* a selecting preference, the frontend pick is a catalog entry with the
\* easiest learning_curve of its category at SIMPLE and MODERATE and with
\* the highest popularity_score at COMPLEX and ENTERPRISE; the backend pick
\* is tagged enterprise or high_performance at ENTERPRISE and
\* api_development otherwise; the database pick is tagged relational_data,
\* complex_queries and acid_compliance.
C10_AutomaticPolicy ==
  IsCall(last, "generate_tech_recommendations")
    => LET pd == last.project_data
           c == last.complexity
           r == last.result
       IN  /\ ~PreferenceSelects(pd, "frontend_preference", FRONTEND)
                => \E e \in Entries(FRONTEND) :
                     /\ e.name = r[1].name
                     /\ c \in {SIMPLE, MODERATE}
                          => \A o \in Entries(FRONTEND) :
                               CurveRank(e.learning_curve) <= CurveRank(o.learning_curve)
                     /\ c \in {COMPLEX, ENTERPRISE}
                          => \A o \in Entries(FRONTEND) :
                               e.popularity_score >= o.popularity_score
           /\ ~PreferenceSelects(pd, "backend_preference", BACKEND)
                => \E e \in Entries(BACKEND) :
                     /\ e.name = r[2].name
                     /\ c = ENTERPRISE
                          => \/ InList("enterprise", e.best_for)
                             \/ InList("high_performance", e.best_for)
                     /\ c # ENTERPRISE => InList("api_development", e.best_for)
           /\ ~PreferenceSelects(pd, "database_preference", DATABASE)
                => \E e \in Entries(DATABASE) :
                     /\ e.name = r[3].name
                     /\ InList("relational_data", e.best_for)
                     /\ InList("complex_queries", e.best_for)
                     /\ InList("acid_compliance", e.best_for)

\* No preference at all, tier COMPLEX: React, Node.js, PostgreSQL.
C10_Witness ==
  /\ IsCall(last, "generate_tech_recommendations")
  /\ last.complexity = COMPLEX
  /\ \A i \in 1..3 : PreferenceKeys[i] \notin DOMAIN last.project_data
  /\ last.result[1].name = <<"R","e","a","c","t">>
  /\ last.result[2].name = <<"N","o","d","e",".","j","s">>
  /\ last.result[3].name = <<"P","o","s","t","g","r","e","S","Q","L">>

\* The component types built from the recommendations, by category.
TechComponentTypes == <<"web_application", "rest_api", "database">>

\* C11: generate_architecture_components emits one component for each entry
\* of the base_components list of the selected template, so at least as many
\* components as the template has base components, and the frontend, backend
\* and database components carry the name of the recommendation of the
\* matching category as a technology.
C11_OneComponentPerBaseEntry ==
  IsCall(last, "generate_architecture_components")
    => LET template == TemplateFor(Get(last.project_data, "project_type", "custom"))
           recs == last.tech_recommendations
       IN  /\ Len(last.result) >= Len(template.base_components)
           /\ \A k \in DOMAIN last.result : \A i \in 1..3 :
                last.result[k].type = TechComponentTypes[i]
                  => \E j \in DOMAIN recs :
                       /\ recs[j].category = Categories[i]
                       /\ InList(recs[j].name, last.result[k].technologies)

\* The project type is not a key of the template table.
UnknownType(project_data) ==
  Get(project_data, "project_type", "custom") \notin DOMAIN project_templates

\* project_data with project_type set to "api".
AsApi(project_data) == ("project_type" :> "api") @@ project_data

\* C12: Unknown project type fallback.  For a project_type that is not a key
\* of the template table, or a missing one, generate_architecture_components
\* and estimate_project_timeline return what they return for project_type
\* "api" with the same scale, recommendations and tier, and
\* generate_detailed_schema returns a schema without raising.
C12_UnknownTypeFallback ==
  /\ (IsCall(last, "generate_architecture_components") /\ UnknownType(last.project_data))
       => last.result
            = generate_architecture_components(AsApi(last.project_data),
                                               last.tech_recommendations)
  /\ (IsCall(last, "estimate_project_timeline") /\ UnknownType(last.project_data))
       => last.result
            = estimate_project_timeline(AsApi(last.project_data), last.complexity,
                                        last.components)
  /\ (/\ last.op = "generate_detailed_schema"
      /\ UnknownType(last.project_data)
      /\ IsStrAtom(Get(last.project_data, "project_type", "custom"))
      /\ IsStr(Get(last.project_data, "requirements", << >>)))
       => /\ last.raised = None
          /\ last.result.project_type = Get(last.project_data, "project_type", "custom")

\* A schema for project_type blog at scale medium: the api timeline at
\* SIMPLE and the api components with the cache.
C12_Witness ==
  /\ IsCall(last, "generate_detailed_schema")
  /\ "project_type" \in DOMAIN last.project_data
  /\ last.project_data["project_type"] = "blog"
  /\ last.result.complexity = SIMPLE
  /\ last.result.total_duration_weeks = 5
  /\ [k \in DOMAIN last.result.architecture_components |->
        last.result.architecture_components[k].name]
       = <<"API Backend", "Primary Database", "Cache Layer">>

\* The number of components with a given name.
CountNamed(components, name) ==
  Cardinality({k \in DOMAIN components : components[k].name = name})

\* C13: the architecture contains a component of type cache, the Cache
\* Layer, if and only if scale is medium or large, whatever the project type,
\* and never more than one.
C13_CacheIffMediumOrLarge ==
  IsCall(last, "generate_architecture_components")
    => LET caches == {k \in DOMAIN last.result : last.result[k].type = "cache"}
           scale == Get(last.project_data, "scale", None)
       IN  /\ Cardinality(caches) = IF scale \in {"medium", "large"} THEN 1 ELSE 0
           /\ \A k \in caches : last.result[k].name = "Cache Layer"
           /\ CountNamed(last.result, "Cache Layer") = Cardinality(caches)

\* A mobile project at scale large: one cache, after the database.
C13_Witness ==
  /\ IsCall(last, "generate_architecture_components")
  /\ Get(last.project_data, "project_type", None) = "mobile"
  /\ Get(last.project_data, "scale", None) = "large"
  /\ Len(last.result) = 4
  /\ last.result[3].type = "cache"

\* C14: the architecture contains a Payment Gateway component if and only if
\* project_type is ecommerce and a Push Notification Service component if and
\* only if project_type is mobile, whatever the scale; none contains both.
C14_TypeSpecificComponents ==
  IsCall(last, "generate_architecture_components")
    => LET project_type == Get(last.project_data, "project_type", None)
           payment == CountNamed(last.result, "Payment Gateway")
           push == CountNamed(last.result, "Push Notification Service")
       IN  /\ payment = IF project_type = "ecommerce" THEN 1 ELSE 0
           /\ push = IF project_type = "mobile" THEN 1 ELSE 0
           /\ payment + push <= 1

\* A mobile project at scale small: the push service and no payment gateway.
C14_Witness ==
  /\ IsCall(last, "generate_architecture_components")
  /\ Get(last.project_data, "project_type", None) = "mobile"
  /\ Get(last.project_data, "scale", None) = "small"
  /\ last.result[Len(last.result)].name = "Push Notification Service"
  /\ CountNamed(last.result, "Payment Gateway") = 0

\* The base weeks and the multipliers (in tenths) as documented.
StatedBaseWeeks(project_type) ==
  CASE project_type = "ecommerce" -> 16
    [] project_type = "saas" -> 20
    [] project_type = "mobile" -> 14
    [] project_type = "api" -> 8
    [] project_type = "dashboard" -> 12

StatedMultiplier(tier) ==
  CASE tier = SIMPLE -> 7 [] tier = MODERATE -> 10 [] tier = COMPLEX -> 13
    [] tier = ENTERPRISE -> 16

\* C15: for every template and tier the total_weeks returned by
\* estimate_project_timeline is floor(base_weeks * m), m = 0.7, 1.0, 1.3, 1.6
\* for SIMPLE, MODERATE, COMPLEX, ENTERPRISE; an api project at SIMPLE gets
\* 5; the complexity_multiplier field of the template plays no part.
C15_TotalWeeks ==
  (/\ IsCall(last, "estimate_project_timeline")
   /\ ~UnknownType(last.project_data))
    => /\ last.result[2]
            = (StatedBaseWeeks(last.project_data["project_type"])
                 * StatedMultiplier(last.complexity)) \div 10
       /\ (last.project_data["project_type"] = "api" /\ last.complexity = SIMPLE)
            => last.result[2] = 5

\* The api template at SIMPLE: floor(8 * 0.7) = 5.
C15_Witness ==
  /\ IsCall(last, "estimate_project_timeline")
  /\ Get(last.project_data, "project_type", None) = "api"
  /\ last.complexity = SIMPLE
  /\ last.result[2] = 5

PhaseNames ==
  <<"Planning & Setup", "Backend Development", "Frontend Development",
    "Integration & Testing", "Deployment & Launch">>

\* C16: estimate_project_timeline returns exactly five phases named, in
\* order, Planning & Setup, Backend Development, Frontend Development,
\* Integration & Testing, Deployment & Launch, of durations
\* max(1, total_weeks // 8), max(2, total_weeks // 3), max(2, total_weeks // 3),
\* max(1, total_weeks // 6), max(1, total_weeks // 10) and team sizes
\* 2, 2, 2, 3, 2, for every project type and tier.
C16_FivePhases ==
  IsCall(last, "estimate_project_timeline")
    => LET phases == last.result[1]
           w == last.result[2]
       IN  /\ Len(phases) = 5
           /\ [i \in 1..5 |-> phases[i].name] = PhaseNames
           /\ [i \in 1..5 |-> phases[i].duration_weeks]
                = <<Max(1, w \div 8), Max(2, w \div 3), Max(2, w \div 3),
                    Max(1, w \div 6), Max(1, w \div 10)>>
           /\ [i \in 1..5 |-> phases[i].team_size] = <<2, 2, 2, 3, 2>>

\* The dashboard template at SIMPLE, 8 weeks: the last duration is its minimum.
C16_Witness ==
  /\ IsCall(last, "estimate_project_timeline")
  /\ last.result[2] = 8
  /\ Get(last.project_data, "project_type", None) = "dashboard"
  /\ [i \in 1..5 |-> last.result[1][i].duration_weeks] = <<1, 2, 2, 1, 1>>

\* C17: the phase dependencies of a timeline form a strict linear chain: the
\* first phase depends on nothing and phase i (i = 2..5) exactly on the name
\* of phase i-1, so every dependency names an earlier phase.
C17_LinearDependencies ==
  IsCall(last, "estimate_project_timeline")
    => LET phases == last.result[1]
       IN  /\ phases[1].dependencies = << >>
           /\ \A i \in 2..Len(phases) : phases[i].dependencies = <<phases[i - 1].name>>
           /\ \A i \in DOMAIN phases : \A d \in DOMAIN phases[i].dependencies :
                \E j \in 1..(i - 1) : phases[j].name = phases[i].dependencies[d]

C17_Witness ==
  /\ IsCall(last, "estimate_project_timeline")
  /\ Len(last.result[1]) = 5
  /\ last.result[1][5].dependencies = <<"Integration & Testing">>
  /\ last.result[1][2].dependencies = <<last.result[1][1].name>>

\* C18: for every total_weeks >= 0, estimate_costs returns development_cost
\* = total_weeks * 40 * 2.5 * 75 = 7500 * total_weeks and
\* maintenance_cost_monthly = development_cost * 0.2 / 12 = 125 * total_weeks,
\* whatever the project type and the tier.
C18_DevelopmentAndMaintenance ==
  IsCall(last, "estimate_costs")
    => /\ last.result.development_cost = 7500 * last.total_weeks
       /\ 10 * last.result.development_cost = last.total_weeks * 40 * 25 * 75
       /\ last.result.maintenance_cost_monthly = 125 * last.total_weeks
       /\ 120 * last.result.maintenance_cost_monthly = 2 * last.result.development_cost

C18_Witness ==
  /\ IsCall(last, "estimate_costs")
  /\ last.total_weeks = 5
  /\ Get(last.project_data, "project_type", None) = "saas"
  /\ last.complexity = ENTERPRISE
  /\ last.result.development_cost = 37500
  /\ last.result.maintenance_cost_monthly = 625

StatedInfrastructure(tier) ==
  CASE tier = SIMPLE -> 50 [] tier = MODERATE -> 150 [] tier = COMPLEX -> 300
    [] tier = ENTERPRISE -> 600

StatedServices(project_type) ==
  CASE project_type = "ecommerce"
         -> {<<"Payment Processing", 29>>, <<"Email Service", 15>>, <<"CDN", 20>>}
    [] project_type = "saas"
         -> {<<"Auth Service", 25>>, <<"Analytics", 35>>, <<"Monitoring", 25>>}
    [] OTHER -> {}

\* C19: estimate_costs sets infrastructure_cost_monthly from the tier alone
\* (50, 150, 300, 600) and third_party_services from the project type alone:
\* Payment Processing 29, Email Service 15, CDN 20 for ecommerce; Auth
\* Service 25, Analytics 35, Monitoring 25 for saas; empty for every other
\* or missing project type.
C19_InfrastructureAndServices ==
  IsCall(last, "estimate_costs")
    => LET services == last.result.third_party_services
           stated == StatedServices(Get(last.project_data, "project_type", None))
       IN  /\ last.result.infrastructure_cost_monthly = StatedInfrastructure(last.complexity)
           /\ Range(services) = stated
           /\ Len(services) = Cardinality(stated)

C19_Witness ==
  /\ IsCall(last, "estimate_costs")
  /\ "project_type" \notin DOMAIN last.project_data
  /\ last.complexity = COMPLEX
  /\ last.result.infrastructure_cost_monthly = 300
  /\ last.result.third_party_services = << >>

\* project_type or scale is missing, or scale is none of small, medium, large.
ShapeViolation(project_data) ==
  \/ "project_type" \notin DOMAIN project_data
  \/ "scale" \notin DOMAIN project_data
  \/ project_data["scale"] \notin {"small", "medium", "large"}

\* C20: InputShapeError.  analyze_project_complexity and
\* generate_detailed_schema, called with an input that lacks project_type or
\* scale or whose scale is none of small, medium, large, raise an error and
\* return neither a tier nor a schema.
C20_InputShapeError ==
  (/\ last.op \in {"analyze_project_complexity", "generate_detailed_schema"}
   /\ ShapeViolation(last.project_data)
   /\ IsStr(Get(last.project_data, "requirements", << >>)))
    => /\ last.raised # None
       /\ "result" \notin DOMAIN last

\* SIMPLE < MODERATE < COMPLEX < ENTERPRISE
TierRank(tier) == CHOOSE i \in 1..4 : ProjectComplexity[i] = tier

\* s starts with the sequence base.
StartsWith(s, base) == Len(s) >= Len(base) /\ SubSeq(s, 1, Len(base)) = base

BaseRecommendations ==
  <<"Commencer par un MVP (Minimum Viable Product) pour valider le concept",
    "Implementer une architecture modulaire pour faciliter la maintenance",
    "Mettre en place un systeme de monitoring des le debut",
    "Prevoir une strategie de sauvegarde et de recuperation",
    "Documenter l'API et maintenir la documentation a jour">>

BaseRisks ==
  <<"Depassement de budget si les requirements changent",
    "Delais prolonges en cas de problemes techniques imprevus",
    "Problemes de performance si la charge utilisateur est sous-estimee">>

BaseSuccessFactors ==
  <<"Equipe de developpement experimentee",
    "Requirements clairs et valides",
    "Tests utilisateurs reguliers",
    "Communication continue avec les stakeholders",
    "Approche agile avec livraisons iteratives",
    "Monitoring et feedback continus",
    "Documentation technique maintenue a jour">>

\* C21: in every generated schema the recommendations, risks and
\* success_factors lists start with their fixed base lists of 5, 3 and 7
\* entries; one of the three lists is longer than its base list if and only
\* if the tier is COMPLEX or ENTERPRISE or the project type is ecommerce or
\* saas; confidence_score is 0.85.
C21_BaseListsAndExtras ==
  IsCall(last, "generate_detailed_schema")
    => LET schema == last.result
           extras == \/ Len(schema.recommendations) > 5
                     \/ Len(schema.risks) > 3
                     \/ Len(schema.success_factors) > 7
       IN  /\ StartsWith(schema.recommendations, BaseRecommendations)
           /\ StartsWith(schema.risks, BaseRisks)
           /\ StartsWith(schema.success_factors, BaseSuccessFactors)
           /\ extras <=> \/ schema.complexity \in {COMPLEX, ENTERPRISE}
                         \/ Get(last.project_data, "project_type", None) \in {"ecommerce", "saas"}
           /\ schema.confidence_score = 85

\* An ecommerce project at SIMPLE: only the risks carry an extra entry.
C21_Witness ==
  /\ IsCall(last, "generate_detailed_schema")
  /\ Get(last.project_data, "project_type", None) = "ecommerce"
  /\ last.result.complexity = SIMPLE
  /\ Len(last.result.recommendations) = 5
  /\ Len(last.result.risks) = 4
  /\ Len(last.result.success_factors) = 7

\* The type of the component a connection name stands for.
ConnectionTarget(connection) ==
  CASE connection = "web_frontend" -> "web_application"
    [] connection = "api_backend" -> "rest_api"
    [] connection = "database" -> "database"
    [] connection = "cache" -> "cache"
    [] OTHER -> "none"

\* C25: Closed architecture graph.  Every name in the connections of an
\* emitted component designates a component emitted in the same composition;
\* in particular the backend lists a cache connection only when the cache
\* component is present.
C25_ClosedArchitectureGraph ==
  IsCall(last, "generate_architecture_components")
    => \A k \in DOMAIN last.result : \A c \in DOMAIN last.result[k].connections :
         \E j \in DOMAIN last.result :
           last.result[j].type = ConnectionTarget(last.result[k].connections[c])

\* The fields of a schema that do not depend on the description or on the
\* preferences.
PreferenceFree(schema) ==
  [complexity |-> schema.complexity,
   project_phases |-> schema.project_phases,
   total_duration_weeks |-> schema.total_duration_weeks,
   time_estimation |-> schema.time_estimation,
   cost_estimation |-> schema.cost_estimation,
   recommendations |-> schema.recommendations,
   risks |-> schema.risks,
   success_factors |-> schema.success_factors,
   components |-> [k \in DOMAIN schema.architecture_components |->
                     <<schema.architecture_components[k].name,
                       schema.architecture_components[k].connections>>]]

\* project_data with another description and without the three preferences.
Neutral(project_data) ==
  ("description" :> "Un autre texte de description")
  @@ [k \in DOMAIN project_data
            \ {"frontend_preference", "backend_preference", "database_preference"}
        |-> project_data[k]]

\* C28: Non-interference of preferences and description.  Inputs that agree
\* on project_type, scale and requirements yield schemas with the same
\* complexity, phases, total duration, time and cost estimation,
\* recommendations, risks, success factors and the same component names and
\* connections, whatever their description and preferences.
C28_NonInterference ==
  IsCall(last, "generate_detailed_schema")
    => PreferenceFree(last.result)
         = PreferenceFree(generate_detailed_schema(Neutral(last.project_data),
                                                   last.result.generated_at))

\* Three selecting preferences: the technologies differ from those of the
\* input without preferences, the other fields do not.
C28_Witness ==
  /\ IsCall(last, "generate_detailed_schema")
  /\ \A i \in 1..3 : PreferenceSelects(last.project_data, PreferenceKeys[i], Categories[i])
  /\ last.result.tech_recommendations
       # generate_detailed_schema(Neutral(last.project_data), 0).tech_recommendations
  /\ last.result.description # "Un autre texte de description"

\* The tiers above a tier.
HigherTiers(tier) == {t \in Tiers : TierRank(t) > TierRank(tier)}

\* C29: for a fixed project type, a higher tier never decreases total_weeks,
\* the duration of any phase, development_cost, infrastructure_cost_monthly,
\* total_first_year or ongoing_yearly, the costs being those of the
\* total_weeks of the tier.
C29_MonotoneInTier ==
  /\ IsCall(last, "estimate_project_timeline")
       => \A t \in HigherTiers(last.complexity) :
            LET higher == estimate_project_timeline(last.project_data, t, last.components)
            IN  /\ higher[2] >= last.result[2]
                /\ \A i \in DOMAIN last.result[1] :
                     higher[1][i].duration_weeks >= last.result[1][i].duration_weeks
  /\ (/\ IsCall(last, "estimate_costs")
      /\ last.total_weeks = TotalWeeks(last.project_data, last.complexity))
       => \A t \in HigherTiers(last.complexity) :
            LET higher == estimate_costs(last.project_data, t, TotalWeeks(last.project_data, t))
            IN  /\ higher.development_cost >= last.result.development_cost
                /\ higher.infrastructure_cost_monthly
                     >= last.result.infrastructure_cost_monthly
                /\ higher.total_first_year >= last.result.total_first_year
                /\ higher.ongoing_yearly >= last.result.ongoing_yearly

\* The costs of a saas project at MODERATE, 20 weeks, below those at COMPLEX, 26 weeks.
C29_Witness ==
  /\ IsCall(last, "estimate_costs")
  /\ Get(last.project_data, "project_type", None) = "saas"
  /\ last.complexity = MODERATE
  /\ last.total_weeks = 20
  /\ last.total_weeks = TotalWeeks(last.project_data, last.complexity)
  /\ TotalWeeks(last.project_data, COMPLEX) = 26
  /\ last.result.development_cost = 150000

\* C30: in every generated schema estimated_hours = 100 * total_duration_weeks,
\* min_hours = 80 * total_duration_weeks, max_hours = 120 *
\* total_duration_weeks, so min_hours <= estimated_hours <= max_hours, and
\* development_cost = 75 * estimated_hours; tech_stack_summary has exactly
\* the keys frontend, backend, database, each with the name of the
\* recommendation of that category.
C30_TimeEstimationConsistency ==
  IsCall(last, "generate_detailed_schema")
    => LET schema == last.result
           time == schema.time_estimation
           w == schema.total_duration_weeks
       IN  /\ time.estimated_hours = 100 * w
           /\ time.min_hours = 80 * w
           /\ time.max_hours = 120 * w
           /\ time.min_hours <= time.estimated_hours
           /\ time.estimated_hours <= time.max_hours
           /\ schema.cost_estimation.development_cost = 75 * time.estimated_hours
           /\ Keys(schema.tech_stack_summary) = <<"frontend", "backend", "database">>
           /\ \A i \in 1..3 :
                \E j \in DOMAIN schema.tech_recommendations :
                  /\ schema.tech_recommendations[j].category = Categories[i]
                  /\ schema.tech_stack_summary[i][2] = schema.tech_recommendations[j].name

\* A saas schema at ENTERPRISE: 32 weeks, 3200 hours, 240000 of development.
C30_Witness ==
  /\ IsCall(last, "generate_detailed_schema")
  /\ last.result.total_duration_weeks = 32
  /\ last.result.time_estimation.estimated_hours = 3200
  /\ last.result.cost_estimation.development_cost = 240000
  /\ Len(last.result.tech_stack_summary) = 3

\* C26: every failure inside generate_detailed_schema, whatever its origin (a
\* project_type or a requirements value that is present but not a string),
\* reaches the caller as a DevPlanException and as no other exception, and
\* then no schema is returned.
C26_FailuresWrapped ==
  last.op = "generate_detailed_schema"
    => /\ last.raised \in {None, "DevPlanException"}
       /\ last.raised # None => "result" \notin DOMAIN last
       /\ (\/ ~IsStr(Get(last.project_data, "requirements", << >>))
           \/ ~IsStrAtom(Get(last.project_data, "project_type", "custom")))
            => last.raised = "DevPlanException"

\* The number 42 as project_type with requirements that are a str: the
\* analysis returns and the failure comes from the project name.
C26_Witness ==
  /\ last.op = "generate_detailed_schema"
  /\ Get(last.project_data, "project_type", "custom") = "int 42"
  /\ ~AnalysisRaises(last.project_data)
  /\ last.raised = "DevPlanException"
  /\ DOMAIN last = {"op", "project_data", "raised"}

\* The fields the dataclasses declare.
DetailedSchemaFields ==
  {"project_name", "project_type", "description", "complexity",
   "architecture_components", "system_architecture", "data_flow",
   "tech_recommendations", "tech_stack_summary", "project_phases",
   "total_duration_weeks", "time_estimation", "cost_estimation", "generated_at",
   "confidence_score", "recommendations", "risks", "success_factors"}

TechnologyRecommendationFields ==
  {"name", "category", "version", "reason", "alternatives", "learning_curve",
   "popularity_score", "maintenance_cost"}

ArchitectureComponentFields ==
  {"name", "type", "description", "technologies", "connections", "scalability",
   "estimated_complexity"}

TimeEstimationFields ==
  {"task_name", "estimated_hours", "min_hours", "max_hours", "dependencies",
   "critical_path", "required_skills"}

CostEstimationFields ==
  {"development_cost", "infrastructure_cost_monthly", "maintenance_cost_monthly",
   "third_party_services", "total_first_year", "ongoing_yearly"}

ProjectPhaseFields ==
  {"name", "description", "duration_weeks", "tasks", "deliverables", "dependencies",
   "team_size", "time_estimations"}

\* The lower-case token of an enumeration member.
LowercaseToken(member) ==
  CASE member = "ProjectComplexity.SIMPLE" -> "simple"
    [] member = "ProjectComplexity.MODERATE" -> "moderate"
    [] member = "ProjectComplexity.COMPLEX" -> "complex"
    [] member = "ProjectComplexity.ENTERPRISE" -> "enterprise"
    [] member = "TechStackCategory.FRONTEND" -> "frontend"
    [] member = "TechStackCategory.BACKEND" -> "backend"
    [] member = "TechStackCategory.DATABASE" -> "database"
    [] OTHER -> "none"

DecimalDigits == {"0", "1", "2", "3", "4", "5", "6", "7", "8", "9"}

\* The number a digit character denotes.
DigitValue(c) == CHOOSE d \in 0..9 : <<"0", "1", "2", "3", "4", "5", "6", "7", "8", "9">>[d + 1] = c

\* text has the ISO-8601 shape YYYY-MM-DDTHH:MM:SS.
IsIso8601(text) ==
  /\ DOMAIN text = 1..19
  /\ text[5] = "-" /\ text[8] = "-" /\ text[11] = "T" /\ text[14] = ":" /\ text[17] = ":"
  /\ \A i \in (1..19) \ {5, 8, 11, 14, 17} : text[i] \in DecimalDigits

\* C22: the exported mapping of a generated schema has an entry for every
\* field of DetailedSchema and, at the same path, for every field of the
\* nested records; the complexity tier and the category of every
\* recommendation are lower-case string tokens, generated_at is an ISO-8601
\* text that denotes the instant of generation, and every other entry has the
\* value of the field it comes from.
C22_SerializationRoundTrip ==
  IsCall(last, "export_schema_to_dict")
    => LET schema == last.schema
           exported == last.result
       IN  /\ DOMAIN exported = DetailedSchemaFields
           /\ exported.complexity = LowercaseToken(schema.complexity)
           /\ exported.complexity \in {"simple", "moderate", "complex", "enterprise"}
           /\ IsIso8601(exported.generated_at)
           /\ 10 * DigitValue(exported.generated_at[18]) + DigitValue(exported.generated_at[19])
                = schema.generated_at
           /\ \A f \in DetailedSchemaFields \ {"complexity", "generated_at", "tech_recommendations"} :
                exported[f] = schema[f]
           /\ DOMAIN exported.tech_recommendations = DOMAIN schema.tech_recommendations
           /\ \A i \in DOMAIN schema.tech_recommendations :
                LET t == schema.tech_recommendations[i]
                    e == exported.tech_recommendations[i]
                IN  /\ DOMAIN e = TechnologyRecommendationFields
                    /\ e.category = LowercaseToken(t.category)
                    /\ e.category \in {"frontend", "backend", "database"}
                    /\ \A f \in TechnologyRecommendationFields \ {"category"} : e[f] = t[f]
           /\ \A i \in DOMAIN exported.architecture_components :
                DOMAIN exported.architecture_components[i] = ArchitectureComponentFields
           /\ \A i \in DOMAIN exported.project_phases :
                DOMAIN exported.project_phases[i] = ProjectPhaseFields
           /\ DOMAIN exported.time_estimation = TimeEstimationFields
           /\ DOMAIN exported.cost_estimation = CostEstimationFields

\* The export of a schema that has recommendations, components and phases,
\* generated after the first reading of the clock.
C22_Witness ==
  /\ IsCall(last, "export_schema_to_dict")
  /\ last.schema.generated_at > 0
  /\ Len(last.schema.tech_recommendations) = 3
  /\ Len(last.schema.architecture_components) > 2
  /\ Len(last.schema.project_phases) = 5
  /\ last.result.generated_at[19] = Digit(last.schema.generated_at)

-----------------------------------------------------------------------------
(* Properties of sequences of calls, checked under SpecSeq.                *)

Factors(project_data) ==
  <<ScaleFactor(project_data), TypeFactor(project_data),
    SecurityFactor(project_data), RealTimeFactor(project_data)>>

\* b differs from a in exactly one scoring factor, which is higher in b.
RaisesOneFactor(a, b) ==
  \E i \in 1..4 :
    /\ Factors(b)[i] > Factors(a)[i]
    /\ \A j \in (1..4) \ {i} : Factors(b)[j] = Factors(a)[j]

\* C4: Monotonicity.  When the input of one analysis differs from the input
\* of another in exactly one scoring factor (scale, project type bonus,
\* first keyword group, second keyword group) and that factor is higher,
\* its tier is greater than or equal to the tier of the other.
C4_Monotonicity ==
  (/\ IsCall(kept, "analyze_project_complexity")
   /\ IsCall(last, "analyze_project_complexity")
   /\ RaisesOneFactor(kept.project_data, last.project_data))
    => TierRank(last.result) >= TierRank(kept.result)

\* Raising the project type bonus from 0 to 1 at score 4 moves MODERATE to COMPLEX.
C4_Witness ==
  /\ IsCall(kept, "analyze_project_complexity")
  /\ IsCall(last, "analyze_project_complexity")
  /\ RaisesOneFactor(kept.project_data, last.project_data)
  /\ TypeFactor(kept.project_data) = 0
  /\ TypeFactor(last.project_data) = 1
  /\ kept.result = MODERATE
  /\ last.result = COMPLEX

\* A schema with its timestamp erased.
ModuloTimestamp(schema) == [schema EXCEPT !.generated_at = 0]

\* C5: Determinism.  Two analyze_project_complexity calls with equal inputs
\* return the same tier, and two generate_detailed_schema calls with equal
\* inputs return schemas equal in every field except generated_at, whatever
\* calls were made before or between them and whether or not the generator
\* was constructed anew.
C5_Determinism ==
  /\ (/\ IsCall(kept, "analyze_project_complexity")
      /\ IsCall(last, "analyze_project_complexity")
      /\ kept.project_data = last.project_data)
       => kept.result = last.result
  /\ (/\ IsCall(kept, "generate_detailed_schema")
      /\ IsCall(last, "generate_detailed_schema")
      /\ kept.project_data = last.project_data)
       => ModuloTimestamp(kept.result) = ModuloTimestamp(last.result)

\* Two schemas of the same input generated at different times.
C5_Witness ==
  /\ IsCall(kept, "generate_detailed_schema")
  /\ IsCall(last, "generate_detailed_schema")
  /\ kept.project_data = last.project_data
  /\ kept.result.generated_at # last.result.generated_at
  /\ kept.result.complexity = last.result.complexity

\* The arguments of a call.
Arguments(call) == [f \in DOMAIN call \ {"raised", "result"} |-> call[f]]

\* What the caller observes of a call: the exception, or the result (with
\* the timestamp of a schema erased).
Outcome(call) ==
  IF call.raised # None THEN <<call.raised>>
  ELSE IF call.op = "generate_detailed_schema" THEN <<None, ModuloTimestamp(call.result)>>
  ELSE <<None, call.result>>

\* C24: No persisted error state.  A failing generate_detailed_schema call
\* leaves the tables of the generator as they were, and the call that
\* follows it on the same generator has exactly the outcome the same call
\* had before the failing call was made.
C24_NoPersistedErrorState ==
  [][/\ (last'.op = "generate_detailed_schema" /\ last'.raised # None)
         => (project_templates' = project_templates /\ tech_database' = tech_database)
     /\ (/\ kept # NoCall
         /\ kept' = kept
         /\ last.op = "generate_detailed_schema"
         /\ last.raised # None
         /\ Arguments(last') = Arguments(kept))
          => Outcome(last') = Outcome(kept)]_vars

\* A failing call was made and kept, and a call made after it returned
\* the components of a project whose type has no template.
C24_Witness ==
  /\ kept.op = "generate_detailed_schema"
  /\ kept.raised = "DevPlanException"
  /\ IsCall(last, "generate_architecture_components")
  /\ Get(last.project_data, "project_type", "custom") = "blog"

-----------------------------------------------------------------------------
(* Properties of requests, checked under SpecRoute.                        *)

RequiredKeys == {"project_type", "description", "scale", "requirements"}

\* C27: every request for which validate_project_data reports is_valid has
\* a cleaned_data with project_type, description, scale (medium when the
\* request gives none) and requirements, and generate_detailed_schema
\* followed by export_schema_to_dict completes on it: the route answers 200
\* with the whole schema, never 500, and answers 400 only to a request that
\* is empty or not valid.
C27_ValidatedInputsGenerate ==
  /\ (IsCall(last, "validate_project_data") /\ last.result.is_valid)
       => /\ RequiredKeys \subseteq DOMAIN last.result.cleaned_data
          /\ ~Present(last.data, "scale") => last.result.cleaned_data["scale"] = "medium"
          /\ IsStr(last.result.cleaned_data["requirements"])
          /\ ~SchemaRaises(last.result.cleaned_data)
  /\ last.op = "POST /api/schema/generate-detailed"
       => /\ last.raised = None
          /\ last.result.status \in {200, 400}
          /\ last.result.status = 200
               => /\ DOMAIN last.result.schema = DetailedSchemaFields
                  /\ RequiredKeys \subseteq DOMAIN last.result.project_data
          /\ last.result.status = 400
               => \/ last.data = << >>
                  \/ ~validate_project_data(last.data).is_valid

\* A request of a type the catalog has no template for, with the number 42
\* as requirements and no scale, is answered with a schema.
C27_Witness ==
  /\ last.op = "POST /api/schema/generate-detailed"
  /\ last.result.status = 200
  /\ last.result.project_data["project_type"] \in {"blog", "portfolio", "custom"}
  /\ "scale" \notin DOMAIN last.data
  /\ last.result.project_data["scale"] = "medium"
  /\ "requirements" \in DOMAIN last.data
  /\ last.data["requirements"] = FortyTwo
  /\ last.result.project_data["requirements"] = <<"4", "2">>

====
